---- MODULE Spec2Model ----
(***************************************************************************)
(* The multi-provider LLM gateway of devmind (src/sdk): the LLMClient      *)
(* concurrency semaphore, the per-provider CircuitBreaker and the          *)
(* chat / chatWith pipeline, as a state machine over JavaScript's          *)
(* run-to-completion steps (one action = the code between two awaits).     *)
(***************************************************************************)
EXTENDS Integers, Sequences, FiniteSets, TLC

\* ------------------------------------------------------------------ bounds
NumCallers == 3          \* concurrent callers of chat / chatWith (Spec, FairSpec)
NumBreakerCallers == 4   \* concurrent callers of chat (SpecBreaker)
MaxConcurrency == 2      \* largest configured config.concurrencyLimit
FailureThreshold == 2    \* configured circuitBreaker.failureThreshold
ResetTimeoutMs == 2      \* configured circuitBreaker.resetTimeoutMs (clock ticks)
TimeHorizon == 6         \* clock ticks observed after construction
MaxIter == 2             \* largest explicit options.maxIterations
MaxToolCalls == 3        \* most tool calls in the response given to executeTools
NumAcquirers == 3        \* concurrent callers of a rate limiter's acquire
MaxRequests == 2         \* largest SlidingWindowRateLimiter.maxRequests
MaxTokens == 2           \* largest TokenRateLimiter.maxTokensPerMinute
WindowMs == 2            \* the limiter window (windowMs, the minute) in clock ticks
MaxAcquires == 4         \* acquire calls made on one limiter
LimiterHorizon == 5      \* clock ticks observed while a limiter is in use
MaxRetries == 2          \* largest config.maxRetries given to withRetry
InitialDelayMs == 10     \* config.initialDelayMs given to withRetry
MaxDelayMs == 20         \* config.maxDelayMs given to withRetry
BackoffMultiplier == 2   \* config.backoffMultiplier given to withRetry
MaxSize == 2             \* largest estimated size of a request, in tokens
MaxProviders == 2        \* providers added to one ConfigBuilder
MaxChunks == 3           \* tool_call chunks of one processed stream

\* ------------------------------------------------------- program constants
DefaultConcurrencyLimit == 5
DefaultMaxIterations == 10

Max(a, b) == IF a >= b THEN a ELSE b

\* the runAgentLoop call, as a caller of chat
Agent == 0
Callers == 1..NumCallers
BreakerCallers == 1..NumBreakerCallers
Procs == 0..Max(NumCallers, NumBreakerCallers)

\* the ProviderName values a caller can pass; the configurations below
\* register "ollama" alone (createConfig({ollamaUrl})), so the other name is
\* one that is not configured
Configured == "ollama"
Unconfigured == "anthropic"

\* the second provider of the configurations that register two
Second == "openai"
ProviderNames == {Configured, Unconfigured}

StartTime == ResetTimeoutMs + 1
MaxTime == StartTime + TimeHorizon

VARIABLES
  providers,                \* LLMClient.providers (the registered names)
  concurrencyLimit,         \* LLMClient.concurrencyLimit
  activeRequests,           \* LLMClient.activeRequests
  requestQueue,             \* LLMClient.requestQueue: resolvers, oldest first
  resolved,                 \* waiters whose promise was resolved and whose
                            \* continuation is still in the microtask queue
  activeProvider,           \* LLMClient.activeProvider (by name)
  providerCircuitBreakers,  \* LLMClient.providerCircuitBreakers
  now,                      \* Date.now()
  pc,                       \* position of each call
  call,                     \* the operation each caller invoked
  target,                   \* provider whose adapter the call invoked
  outcome,                  \* how the call settled
  slotAcquires,             \* increments of activeRequests made for the call
  slotReleases,             \* releaseSlot runs made for the call
  enqLog,                   \* callers in the order they entered requestQueue
  admitLog,                 \* queued callers in the order they got their slot
  admittedAs,               \* how the breaker let the call through
  failStreak,               \* adapter failures since the last adapter success
  reply,                    \* the ChatResponse the adapter resolved with
  \* runAgentLoop
  agentPc,                  \* position of the runAgentLoop call
  maxIterations,            \* options.maxIterations after defaulting
  messages,                 \* the running message list
  iterations,               \* the loop counter
  lastResponse,             \* lastResponse (<<>> for null, else <<response>>)
  toolIdx,                  \* position of the for loop over response.toolCalls
  result,                   \* what runAgentLoop resolved with (<<>> before)
  chatCalls,                \* this.chat calls made by the loop
  toolExecs,                \* tool.execute calls made by the loop
  firstResponse,            \* the first response chat returned to the loop
  loop,                     \* which loop runs: runAgentLoop or runAgentLoopStreaming
  currentText,              \* runAgentLoopStreaming: currentText of the turn
  toolCalls,                \* runAgentLoopStreaming: toolCalls of the turn
  executing,                \* the tool calls whose execute promise is pending
  events,                   \* what runAgentLoopStreaming has yielded
  sentLog,                  \* the message list of every model call, in order
  emitted,                  \* the tool calls the model emitted in the turn
  heardText,                \* the text the model has streamed in the turn
  turns,                    \* the model turns delivered to the loop, in order
  toolLog,                  \* the calls whose executor the loop has invoked
  \* stream
  streamRest,               \* chunks the adapter's stream has yet to yield
  \* executeTools
  etPc,                     \* position of the executeTools call
  etResponse,               \* its response argument
  etIdx,                    \* position of its for loop over response.toolCalls
  results,                  \* its results array
  etRan,                    \* the calls whose executor it has invoked
  \* SlidingWindowRateLimiter
  maxRequests,              \* SlidingWindowRateLimiter.maxRequests
  requests,                 \* SlidingWindowRateLimiter.requests
  swPc,                     \* position of each acquire() call
  swWake,                   \* when the setTimeout of a sleeping acquire() is due
  swOldest,                 \* requests[0] as the acquire() call found it
  swAdmitted,               \* Date.now() at every completed acquire()
  swRemaining,              \* what getRemainingRequests() last returned
  \* TokenRateLimiter
  maxTokensPerMinute,       \* TokenRateLimiter.maxTokensPerMinute
  tokensUsed,               \* TokenRateLimiter.tokensUsed
  tkPc,                     \* position of each acquire(tokenCount) call
  tkCount,                  \* its tokenCount argument
  tkWake,                   \* when the setTimeout of a sleeping acquire is due
  tkAdmitted,               \* count and Date.now() of every completed acquire
  \* withRetry
  retryConfig,              \* the config argument
  rtPc,                     \* position of the withRetry call
  attempt,                  \* the loop variable
  fnCalls,                  \* invocations of fn
  fnLog,                    \* how each invocation of fn settled
  rtOutcome,                \* what withRetry settled with
  delay,                    \* the delay variable
  sleeps,                   \* the delays slept, in order
  \* per-provider rate limit
  providerLimiters,         \* the providers that have a CombinedRateLimiter
  limiter,                  \* the provider whose limiter each call looked up
  request,                  \* the ChatRequest of each call
  charged,                  \* what each call passed to limiter.acquire
  \* consumers of stream
  consumer,                 \* who iterates the stream of a call
  aborted,                  \* options.signal.aborted of a streamWithCallbacks call
  received,                 \* the chunks the stream has delivered to its consumer
  processed,                \* the chunks passed to processor.processChunk
  textBuffer,               \* StreamProcessor.textBuffer
  cbResult,                 \* how the iteration or streamWithCallbacks ended
  \* an adapter's stream()
  adapter,                  \* the adapter whose stream() runs
  setup,                    \* how fetch and the response turn out
  wire,                     \* the vendor's stream events, in order
  wireEnd,                  \* how the transport ends after them
  pos,                      \* the next event to read
  adPc,                     \* position of the stream() call
  chunks,                   \* the chunks stream() has yielded
  toolCallBuffers,          \* OpenAI: toolCallBuffers
  currentToolCall,          \* Anthropic: currentToolCall
  inputJsonBuffer,          \* Anthropic: inputJsonBuffer
  \* ConfigBuilder and the construction of the client
  builderProviders,         \* ConfigBuilder.config.providers
  builderDefault,           \* ConfigBuilder.config.defaultProvider
  clientConfig,             \* the ClientConfig that build() returned
  client,                   \* whether new LLMClient(config) has run, and how
  \* an adapter's chat() against a failing transport
  failure,                  \* what fetch and the response turn out to be
  thrown,                   \* the error chat() throws
  \* StreamProcessor
  spInput,                  \* the chunks of the stream
  spPos,                    \* the next chunk to process
  toolCallBuffer,           \* StreamProcessor.toolCallBuffer, in insertion order
  reported,                 \* the calls onToolCall was invoked with
  \* the token-bucket RateLimiter
  rlRate,                   \* RateLimiter.config.requestsPerMinute
  rlTokens,                 \* RateLimiter.tokens, in units of 1/WindowMs
  rlLastRefill,             \* RateLimiter.lastRefill
  rlQueue,                  \* RateLimiter.queue
  rlProcessing,             \* RateLimiter.processing
  rlWake,                   \* when the timer of processQueue fires
  rlPc,                     \* position of each caller's acquire()
  rlArrived,                \* the callers in the order of their acquire() calls
  rlAdmitted                \* the callers in the order they were admitted

gatewayVars == <<providers, concurrencyLimit, activeRequests, requestQueue,
                 resolved, activeProvider, providerCircuitBreakers, now, pc,
                 call, target, outcome, slotAcquires, slotReleases, enqLog,
                 admitLog, admittedAs, failStreak, reply>>

\* the gateway's state without the clock
gatewayState == <<providers, concurrencyLimit, activeRequests, requestQueue,
                  resolved, activeProvider, providerCircuitBreakers, pc,
                  call, target, outcome, slotAcquires, slotReleases, enqLog,
                  admitLog, admittedAs, failStreak, reply>>

agentVars == <<agentPc, maxIterations, messages, iterations, lastResponse,
               toolIdx, result, chatCalls, toolExecs, firstResponse, loop,
               currentText, toolCalls, executing, events, sentLog, emitted,
               heardText, turns, toolLog>>

streamVars == <<streamRest>>

toolVars == <<etPc, etResponse, etIdx, results, etRan>>

windowVars == <<maxRequests, requests, swPc, swWake, swOldest, swAdmitted,
                swRemaining>>

tokenVars == <<maxTokensPerMinute, tokensUsed, tkPc, tkCount, tkWake, tkAdmitted>>

retryVars == <<retryConfig, rtPc, attempt, fnCalls, fnLog, rtOutcome, delay, sleeps>>

limitVars == <<providerLimiters, limiter, request, charged>>

consumerVars == <<consumer, aborted, received, processed, textBuffer, cbResult>>

adapterVars == <<adapter, setup, wire, wireEnd, pos, adPc, chunks,
                 toolCallBuffers, currentToolCall, inputJsonBuffer>>

configVars == <<builderProviders, builderDefault, clientConfig, client>>

errorVars == <<failure, thrown>>

processorVars == <<spInput, spPos, toolCallBuffer, reported>>

bucketVars == <<rlRate, rlTokens, rlLastRefill, rlQueue, rlProcessing, rlWake, rlPc,
                rlArrived, rlAdmitted>>

sdkVars == <<configVars, errorVars, processorVars, bucketVars>>

extVars == <<limitVars, consumerVars, adapterVars, sdkVars>>

utilVars == <<toolVars, windowVars, tokenVars, retryVars, extVars>>

vars == <<gatewayVars, agentVars, streamVars, utilVars>>

\* ------------------------------------------------------------- constructor
\* this.concurrencyLimit = config.concurrencyLimit || 5
ConcurrencyLimitOf(cfg) == IF cfg = 0 THEN DefaultConcurrencyLimit ELSE cfg

\* const { maxIterations = 10 } = options; <<>> stands for an omitted option
MaxIterationsOf(opt) == IF opt = <<>> THEN DefaultMaxIterations ELSE opt[1]

\* CircuitBreaker's initial state
NewBreaker == [failures |-> 0, lastFailure |-> 0, state |-> "closed"]

NoCall == [kind |-> "none", provider |-> "none"]

\* ------------------------------------------------------ requests and replies
\* a Message; the fields a message does not carry are "none" or empty
Msg(role, content, calls, toolCallId, name) ==
  [role |-> role, content |-> content, toolCalls |-> calls,
   toolCallId |-> toolCallId, name |-> name]

\* request.messages of the runAgentLoop call
RequestMessages ==
  <<Msg("system", <<"instructions">>, <<>>, "none", "none"),
    Msg("user", <<"question">>, <<>>, "none", "none")>>

\* the tools argument: name and what execute does (absent, returns, throws)
Tools ==
  <<[name |-> "search", execute |-> "returns"],
    [name |-> "broken", execute |-> "throws"],
    [name |-> "noexec", execute |-> "absent"]>>

ToolCall(id, name) == [id |-> id, name |-> name]

\* the toolCalls a model turn can carry: names of the tools above and a name
\* that is no tool
ToolCallLists ==
  {<<ToolCall("t1", "search")>>,
   <<ToolCall("t1", "ghost"), ToolCall("t2", "broken"), ToolCall("t3", "noexec")>>}

\* a ChatResponse: strings are sequences of pieces, id numbers the model turn,
\* hasToolCalls is FALSE when the toolCalls field is absent
Response(id, content, hasToolCalls, calls) ==
  [id |-> id, content |-> content, hasToolCalls |-> hasToolCalls,
   toolCalls |-> calls]

\* what a direct chat call is answered with
PlainReply == Response(0, <<"answer">>, FALSE, <<>>)

\* what the model can answer in turn n of the agent loop
AgentReplies(n) ==
  {Response(n, <<"final">>, b, <<>>) : b \in BOOLEAN}
    \cup {Response(n, <<"step">>, TRUE, tc) : tc \in ToolCallLists}

\* new LLMClient(config) with config.providers = configured,
\* config.defaultProvider = dflt and config.concurrencyLimit in limits
\* (0 stands for an omitted limit); no provider has a rateLimit.  No
\* runAgentLoop call has started; its options.maxIterations is in iterOpts.
Constructed(configured, dflt, limits, iterOpts) ==
  /\ providers = configured
  /\ concurrencyLimit \in {ConcurrencyLimitOf(cfg) : cfg \in limits}
  /\ activeRequests = 0
  /\ requestQueue = <<>>
  /\ resolved = <<>>
  /\ activeProvider = dflt
  /\ providerCircuitBreakers = [p \in configured |-> NewBreaker]
  /\ now = StartTime
  /\ pc = [c \in Procs |-> "idle"]
  /\ call = [c \in Procs |-> NoCall]
  /\ target = [c \in Procs |-> "none"]
  /\ outcome = [c \in Procs |-> "none"]
  /\ slotAcquires = [c \in Procs |-> 0]
  /\ slotReleases = [c \in Procs |-> 0]
  /\ enqLog = <<>>
  /\ admitLog = <<>>
  /\ admittedAs = [c \in Procs |-> "none"]
  /\ failStreak = [p \in configured |-> 0]
  /\ reply = [c \in Procs |-> <<>>]
  /\ agentPc = "idle"
  /\ maxIterations \in {MaxIterationsOf(opt) : opt \in iterOpts}
  /\ messages = <<>>
  /\ iterations = 0
  /\ lastResponse = <<>>
  /\ toolIdx = 0
  /\ result = <<>>
  /\ chatCalls = 0
  /\ toolExecs = 0
  /\ firstResponse = <<>>
  /\ loop = "none"
  /\ currentText = <<>>
  /\ toolCalls = <<>>
  /\ executing = <<>>
  /\ events = <<>>
  /\ sentLog = <<>>
  /\ emitted = <<>>
  /\ heardText = <<>>
  /\ turns = <<>>
  /\ toolLog = <<>>
  /\ streamRest = [c \in Procs |-> <<>>]

\* ---------------------------------------------------------------- semaphore
\* acquireSlot: if (this.activeRequests < this.concurrencyLimit)
SlotFree(active, limit) == active < limit

\* releaseSlot: this.activeRequests = Math.max(0, this.activeRequests - 1)
Decremented(active) == Max(0, active - 1)

ShiftLast(q) == Len(q)

\* releaseSlot: this.requestQueue.shift() takes the element at the front
ShiftIndex(q) == 1

WokenNone(q) == <<>>

\* releaseSlot: if (next) next()  -- the waiters resolved by this release
Woken(q) == IF q = <<>> THEN <<>> ELSE <<q[ShiftIndex(q)]>>

\* releaseSlot: requestQueue after shift()
Shifted(q) ==
  IF q = <<>> THEN <<>>
  ELSE [i \in 1..(Len(q) - 1) |-> IF i < ShiftIndex(q) THEN q[i] ELSE q[i + 1]]

\* the synchronous part of acquireSlot, run by caller c
AcquireSlot(c) ==
  IF SlotFree(activeRequests, concurrencyLimit)
  THEN /\ activeRequests' = activeRequests + 1
       /\ slotAcquires' = [slotAcquires EXCEPT ![c] = 1]
       /\ pc' = [pc EXCEPT ![c] = "acquired"]
       /\ UNCHANGED <<requestQueue, enqLog>>
  ELSE /\ requestQueue' = Append(requestQueue, c)
       /\ enqLog' = Append(enqLog, c)
       /\ slotAcquires' = [slotAcquires EXCEPT ![c] = 0]
       /\ pc' = [pc EXCEPT ![c] = "queued"]
       /\ UNCHANGED activeRequests

\* releaseSlot, run in the finally block of caller c
ReleaseSlot(c) ==
  /\ activeRequests' = Decremented(activeRequests)
  /\ resolved' = resolved \o Woken(requestQueue)
  /\ requestQueue' = Shifted(requestQueue)
  /\ slotReleases' = [slotReleases EXCEPT ![c] = @ + 1]

\* the continuation of acquireSlot after `await new Promise(...)`: the oldest
\* resolved waiter runs `this.activeRequests++`
ResumeWaiter ==
  /\ resolved # <<>>
  /\ LET c == Head(resolved) IN
       /\ activeRequests' = activeRequests + 1
       /\ slotAcquires' = [slotAcquires EXCEPT ![c] = @ + 1]
       /\ admitLog' = Append(admitLog, c)
       /\ pc' = [pc EXCEPT ![c] = "acquired"]
  /\ resolved' = Tail(resolved)
  /\ UNCHANGED <<providers, concurrencyLimit, requestQueue, activeProvider,
                 providerCircuitBreakers, now, call, target, outcome,
                 slotReleases, enqLog, admittedAs, failStreak, reply>>
  /\ UNCHANGED <<agentVars, streamVars, utilVars>>

\* ----------------------------------------------------------- circuit breaker
RejectsNoBaseline(cb, t) == cb.state = "open" /\ ~(t > ResetTimeoutMs)

\* execute: state === 'open' and not (Date.now() - lastFailure > resetTimeoutMs)
Rejects(cb, t) == cb.state = "open" /\ ~(t - cb.lastFailure > ResetTimeoutMs)

\* execute: the state after the check, for a call that is let through
Admitted(cb) == IF cb.state = "open" THEN [cb EXCEPT !.state = "half-open"] ELSE cb

\* how a call that is let through found the breaker: "trial" for the call that
\* moved it from open to half-open
AdmissionOf(cb) == IF cb.state = "open" THEN "trial" ELSE cb.state

onSuccess(cb) == [cb EXCEPT !.failures = 0, !.state = "closed"]

onFailureLate(cb, t) ==
  [failures |-> cb.failures + 1,
   lastFailure |-> t,
   state |-> IF cb.failures + 1 > FailureThreshold THEN "open" ELSE cb.state]

onFailure(cb, t) ==
  [failures |-> cb.failures + 1,
   lastFailure |-> t,
   state |-> IF cb.failures + 1 >= FailureThreshold THEN "open" ELSE cb.state]

\* ------------------------------------------------------- chat and chatWith
\* chat(request) / chatWith(provider, request) up to `await this.acquireSlot()`
Call(c, k, p) ==
  /\ call' = [call EXCEPT ![c] = [kind |-> k, provider |-> p]]
  /\ slotReleases' = [slotReleases EXCEPT ![c] = 0]
  /\ outcome' = [outcome EXCEPT ![c] = "none"]
  /\ reply' = [reply EXCEPT ![c] = <<>>]
  /\ AcquireSlot(c)
  /\ UNCHANGED <<providers, concurrencyLimit, resolved, activeProvider,
                 providerCircuitBreakers, now, target, admitLog, admittedAs,
                 failStreak>>

\* a task calls chat(request)
CallChat(c) ==
  pc[c] = "idle" /\ Call(c, "chat", "none")
    /\ UNCHANGED <<agentVars, streamVars, utilVars>>

\* a task calls chatWith(p, request)
CallChatWith(c, p) ==
  pc[c] = "idle" /\ Call(c, "chatWith", p)
    /\ UNCHANGED <<agentVars, streamVars, utilVars>>

AddressedActive(c) == activeProvider

\* the provider a call addresses: this.getActiveProviderName() or the argument
Addressed(c) ==
  IF call[c].kind \in {"chat", "stream"} THEN activeProvider ELSE call[c].provider

StageUnlimited(name) == "acquired"

\* where a call stands when it reaches the breaker or the adapter's stream:
\* after `await limiter.acquire(request.maxTokens)` if (limiter), else right
\* after acquireSlot
StageBefore(name) == IF name \in providerLimiters THEN "limited" ELSE "acquired"

\* the try block up to the adapter call: getProvider, the breaker lookup, the
\* check of execute and the synchronous start of fn().  An unknown provider
\* throws inside the try, so the finally block runs in the same step; a
\* rejection by execute reaches the finally block after the await.  Every
\* registered provider has a breaker, so the `if (cb)` test never fails.
Proceed(c) ==
  /\ pc[c] \in {"limited", StageBefore(Addressed(c))}
  /\ call[c].kind \in {"chat", "chatWith"}
  /\ LET name == Addressed(c) IN
       IF name \notin providers
       THEN /\ ReleaseSlot(c)
            /\ pc' = [pc EXCEPT ![c] = "done"]
            /\ outcome' = [outcome EXCEPT ![c] = "not_configured"]
            /\ call' = [call EXCEPT ![c] = NoCall]
            /\ UNCHANGED <<providerCircuitBreakers, target, admittedAs>>
       ELSE IF Rejects(providerCircuitBreakers[name], now)
       THEN /\ pc' = [pc EXCEPT ![c] = "settled"]
            /\ outcome' = [outcome EXCEPT ![c] = "breaker_open"]
            /\ UNCHANGED <<activeRequests, requestQueue, resolved, slotReleases,
                           providerCircuitBreakers, target, admittedAs, call>>
       ELSE /\ providerCircuitBreakers' =
                 [providerCircuitBreakers EXCEPT ![name] = Admitted(@)]
            /\ target' = [target EXCEPT ![c] = name]
            /\ admittedAs' = [admittedAs EXCEPT
                                ![c] = AdmissionOf(providerCircuitBreakers[name])]
            /\ pc' = [pc EXCEPT ![c] = "adapter"]
            /\ UNCHANGED <<activeRequests, requestQueue, resolved, slotReleases,
                           outcome, call>>
  /\ UNCHANGED <<providers, concurrencyLimit, activeProvider, now, slotAcquires,
                 enqLog, admitLog, failStreak, reply>>
  /\ UNCHANGED <<agentVars, streamVars, utilVars>>

\* the adapter's promise settles, with response r or with an error: execute
\* runs onSuccess or onFailure
AdapterSettle(c, ok, r) ==
  /\ pc[c] = "adapter"
  /\ providerCircuitBreakers' =
       [providerCircuitBreakers EXCEPT
          ![target[c]] = IF ok THEN onSuccess(@) ELSE onFailure(@, now)]
  /\ failStreak' = [failStreak EXCEPT ![target[c]] = IF ok THEN 0 ELSE @ + 1]
  /\ outcome' = [outcome EXCEPT ![c] = IF ok THEN "ok" ELSE "error"]
  /\ reply' = [reply EXCEPT ![c] = IF ok THEN <<r>> ELSE <<>>]
  /\ pc' = [pc EXCEPT ![c] = "settled"]
  /\ UNCHANGED <<providers, concurrencyLimit, activeRequests, requestQueue,
                 resolved, activeProvider, now, call, target, slotAcquires,
                 slotReleases, enqLog, admitLog, admittedAs>>
  /\ UNCHANGED <<agentVars, streamVars, utilVars>>

FinallySkipped(c) ==
  /\ pc[c] = "settled"
  /\ pc' = [pc EXCEPT ![c] = "done"]
  /\ call' = [call EXCEPT ![c] = NoCall]
  /\ target' = [target EXCEPT ![c] = "none"]
  /\ admittedAs' = [admittedAs EXCEPT ![c] = "none"]
  /\ UNCHANGED <<providers, concurrencyLimit, activeRequests, requestQueue,
                 resolved, activeProvider, providerCircuitBreakers, now,
                 outcome, slotAcquires, slotReleases, enqLog, admitLog,
                 failStreak, reply>>
  /\ UNCHANGED <<agentVars, streamVars, utilVars>>

\* finally { this.releaseSlot() } once the awaited execute has settled; the
\* call's promise settles with it
Finally(c) ==
  /\ pc[c] = "settled"
  /\ ReleaseSlot(c)
  /\ pc' = [pc EXCEPT ![c] = "done"]
  /\ call' = [call EXCEPT ![c] = NoCall]
  /\ target' = [target EXCEPT ![c] = "none"]
  /\ admittedAs' = [admittedAs EXCEPT ![c] = "none"]
  /\ UNCHANGED <<providers, concurrencyLimit, activeProvider,
                 providerCircuitBreakers, now, outcome, slotAcquires, enqLog,
                 admitLog, failStreak, reply>>
  /\ UNCHANGED <<agentVars, streamVars, utilVars>>

\* the clock advances.  Date.now() is read by execute only while the breaker is
\* open, and by onFailure; a tick taken while no open breaker is still inside
\* its reset timeout changes nothing any later step can observe, so only the
\* observable ticks are taken
Tick ==
  /\ now < MaxTime
  /\ \E p \in providers :
       /\ providerCircuitBreakers[p].state = "open"
       /\ now - providerCircuitBreakers[p].lastFailure <= ResetTimeoutMs
  /\ now' = now + 1
  /\ UNCHANGED <<providers, concurrencyLimit, activeRequests, requestQueue,
                 resolved, activeProvider, providerCircuitBreakers, pc, call,
                 target, outcome, slotAcquires, slotReleases, enqLog, admitLog,
                 admittedAs, failStreak, reply>>
  /\ UNCHANGED <<agentVars, streamVars, utilVars>>

\* setProvider(name) by a task, for a registered name (any other name throws
\* and changes nothing)
SetProvider(name) ==
  /\ name \in providers
  /\ activeProvider' = name
  /\ UNCHANGED <<providers, concurrencyLimit, activeRequests, requestQueue,
                 resolved, providerCircuitBreakers, now, pc, call, target,
                 outcome, slotAcquires, slotReleases, enqLog, admitLog,
                 admittedAs, failStreak, reply>>
  /\ UNCHANGED <<agentVars, streamVars, utilVars>>

\* ------------------------------------------------------------------ stream
\* stream(request) / streamWith(provider, request) after acquireSlot and the
\* limiter: the breaker is not used, and `yield* ... .stream(request)` starts
\* the adapter's stream, which will yield the chunks of plan.  getProvider
\* throws for a provider that is not configured, and the finally block runs.
StreamProceed(c, plan) ==
  /\ call[c].kind \in {"stream", "streamWith"}
  /\ pc[c] \in {"limited", StageBefore(Addressed(c))}
  /\ IF Addressed(c) \notin providers
     THEN /\ ReleaseSlot(c)
          /\ pc' = [pc EXCEPT ![c] = "done"]
          /\ outcome' = [outcome EXCEPT ![c] = "not_configured"]
          /\ call' = [call EXCEPT ![c] = NoCall]
          /\ UNCHANGED <<target, streamRest>>
     ELSE /\ pc' = [pc EXCEPT ![c] = "streaming"]
          /\ target' = [target EXCEPT ![c] = Addressed(c)]
          /\ streamRest' = [streamRest EXCEPT ![c] = plan]
          /\ UNCHANGED <<activeRequests, requestQueue, resolved, slotReleases,
                         outcome, call>>
  /\ UNCHANGED <<providers, concurrencyLimit, activeProvider,
                 providerCircuitBreakers, now, slotAcquires, enqLog, admitLog,
                 admittedAs, failStreak, reply>>
  /\ UNCHANGED <<agentVars, utilVars>>

StreamLeaks(c, ok) ==
  /\ pc' = [pc EXCEPT ![c] = "done"]
  /\ outcome' = [outcome EXCEPT ![c] = IF ok THEN "ok" ELSE "error"]
  /\ call' = [call EXCEPT ![c] = NoCall]
  /\ target' = [target EXCEPT ![c] = "none"]
  /\ streamRest' = [streamRest EXCEPT ![c] = <<>>]
  /\ UNCHANGED <<providers, concurrencyLimit, activeProvider, now,
                 activeRequests, requestQueue, resolved, slotReleases,
                 providerCircuitBreakers, slotAcquires, enqLog, admitLog,
                 admittedAs, failStreak, reply>>

AfterStreamCounted(cbs, name, ok) ==
  IF ok \/ name \notin DOMAIN cbs THEN cbs
  ELSE [cbs EXCEPT ![name] = onFailure(@, now)]

\* the breakers after the stream of provider name has ended: stream and
\* streamWith have no breaker.execute around `yield* provider.stream(request)`
AfterStream(cbs, name, ok) == cbs

\* the adapter's stream is exhausted (ok) or raises: finally { releaseSlot() }
StreamSettle(c, ok) ==
  /\ ReleaseSlot(c)
  /\ pc' = [pc EXCEPT ![c] = "done"]
  /\ outcome' = [outcome EXCEPT ![c] = IF ok THEN "ok" ELSE "error"]
  /\ call' = [call EXCEPT ![c] = NoCall]
  /\ target' = [target EXCEPT ![c] = "none"]
  /\ streamRest' = [streamRest EXCEPT ![c] = <<>>]
  /\ providerCircuitBreakers' = AfterStream(providerCircuitBreakers, target[c], ok)
  /\ UNCHANGED <<providers, concurrencyLimit, activeProvider, now,
                 slotAcquires, enqLog, admitLog, admittedAs, failStreak, reply>>

\* ------------------------------------------------------------ runAgentLoop
LoopContinuesInclusive(it, max) == it <= max

\* while (iterations < maxIterations)
LoopContinues(it, max) == it < max

NoToolCallsStrict(r) == ~r.hasToolCalls

\* !response.toolCalls?.length
NoToolCalls(r) == ~r.hasToolCalls \/ Len(r.toolCalls) = 0

Suffix == "\n\n[Max iterations reached]"

\* { ...lastResponse, content: lastResponse.content + '\n\n[Max iterations reached]' }
Capped(r) == [r EXCEPT !.content = @ \o <<Suffix>>]

\* tools.find(t => t.name === name): the first tool of that name, if any
FindTool(name) ==
  LET idx == {i \in 1..Len(Tools) : Tools[i].name = name}
  IN IF idx = {} THEN <<>>
     ELSE <<Tools[CHOOSE i \in idx : \A j \in idx : i <= j]>>

\* if (tool?.execute)
HasExecutor(tc) == FindTool(tc.name) # <<>> /\ FindTool(tc.name)[1].execute # "absent"

\* the result text of one tool call: the executor's value, the message of the
\* error it threw, or the not-found text
ToolResultOf(tc) ==
  IF ~HasExecutor(tc) THEN <<"Error: Tool '", tc.name, "' not found">>
  ELSE IF FindTool(tc.name)[1].execute = "throws" THEN <<"Error: ", "boom">>
  ELSE <<"result of ", tc.name>>

Unshifted(msgs, m) == <<m>> \o msgs

\* messages.push(m)
Pushed(msgs, m) == Append(msgs, m)

ToolMessageAnon(tc, text) == Msg("tool", text, <<>>, "none", tc.name)

\* { role: 'tool', content: result, toolCallId: call.id, name: call.name }
ToolMessage(tc, text) == Msg("tool", text, <<>>, tc.id, tc.name)

\* { role: 'assistant', content, toolCalls }
AssistantMessage(content, calls) == Msg("assistant", content, calls, "none", "none")

\* the events runAgentLoopStreaming yields, each with the iteration of the
\* while loop that yielded it
Event(type, content, toolName) ==
  [type |-> type, content |-> content, toolName |-> toolName,
   iteration |-> iterations]

DoneTwice(yielded) == yielded \o <<Event("done", "", ""), Event("done", "", "")>>

\* yield { type: 'done' }
YieldDone(yielded) == Append(yielded, Event("done", "", ""))

\* one model turn as the loop receives it: its text and its tool calls
Turn(content, calls) == [content |-> content, toolCalls |-> calls]

Prepended(calls, tc) == <<tc>> \o calls

\* toolCalls.push({ id, name, arguments })
Collected(calls, tc) == Append(calls, tc)

\* a StreamChunk; toolCall is a Partial<ToolCall>, "" for a field it lacks
Chunk(type, content, toolCall) ==
  [type |-> type, content |-> content, toolCall |-> toolCall]

PartialCall(id, name, arguments) == [id |-> id, name |-> name, arguments |-> arguments]

NoToolCall == PartialCall("", "", "")

TextChunk(content) == Chunk("text", content, NoToolCall)

ToolCallChunk(id, name, arguments) ==
  Chunk("tool_call", "", PartialCall(id, name, arguments))

\* the adapter's stream raises instead of yielding
Raise == Chunk("raise", "", NoToolCall)

\* what the adapter's stream can yield in one model turn: the turns of
\* AgentReplies chunk by chunk, with an empty text chunk, a usage chunk, a
\* tool_call chunk that lacks its id and text after the tool calls in between,
\* and a stream that raises
AgentStreams ==
  {<<>>,
   <<TextChunk("final"), Chunk("done", "", NoToolCall)>>,
   <<TextChunk("step"), ToolCallChunk("t1", "search", "args")>>,
   <<TextChunk(""), ToolCallChunk("t1", "ghost", "args"),
     ToolCallChunk("", "search", "args"), Chunk("usage", "", NoToolCall),
     ToolCallChunk("t2", "broken", "args"), ToolCallChunk("t3", "noexec", "args"),
     TextChunk("late")>>,
   <<TextChunk("step"), Raise>>}

\* if (tc.id && tc.name && tc.arguments)
Complete(tc) == tc.id # "" /\ tc.name # "" /\ tc.arguments # ""

\* the tool calls among the tool_call chunks of a turn: those that carry an
\* id, a name and an arguments object
Heard(cs) ==
  LET full == SelectSeq(cs, LAMBDA tc : tc.id # "" /\ tc.name # "" /\ tc.arguments # "")
  IN [i \in 1..Len(full) |-> ToolCall(full[i].id, full[i].name)]

\* the tool calls of the turn the loop is working on
TurnCalls == IF loop = "runAgentLoop" THEN lastResponse[1].toolCalls ELSE toolCalls

\* the loop test of runAgentLoop with `it` iterations done and `last` the last
\* response: the next this.chat call up to its first await, or the code after
\* the loop
LoopHead(it, last) ==
  IF LoopContinues(it, maxIterations)
  THEN /\ Call(Agent, "chat", "none")
       /\ chatCalls' = chatCalls + 1
       /\ sentLog' = Append(sentLog, messages')
       /\ agentPc' = "chat"
       /\ UNCHANGED result
  ELSE /\ IF last # <<>>
          THEN result' = <<Capped(last[1])>> /\ agentPc' = "returned"
          ELSE result' = <<>> /\ agentPc' = "threw"
       /\ UNCHANGED <<chatCalls, sentLog>>
       /\ UNCHANGED gatewayVars

\* the loop test of runAgentLoopStreaming with `it` iterations done: the next
\* this.stream call up to its first await, or `yield { type: 'done' }`
StreamingLoopHead(it, yielded) ==
  IF LoopContinues(it, maxIterations)
  THEN /\ Call(Agent, "stream", "none")
       /\ sentLog' = Append(sentLog, messages')
       /\ currentText' = <<>>
       /\ toolCalls' = <<>>
       /\ emitted' = <<>>
       /\ events' = yielded
       /\ agentPc' = "stream"
  ELSE /\ events' = YieldDone(yielded)
       /\ agentPc' = "returned"
       /\ UNCHANGED <<sentLog, currentText, toolCalls, emitted>>
       /\ UNCHANGED gatewayVars

\* runAgentLoop(request, tools, options) up to its first await
AgentStart ==
  /\ agentPc = "idle"
  /\ loop' = "runAgentLoop"
  /\ messages' = RequestMessages
  /\ iterations' = 0
  /\ lastResponse' = <<>>
  /\ LoopHead(0, <<>>)
  /\ UNCHANGED <<maxIterations, toolIdx, toolExecs, firstResponse, currentText,
                 toolCalls, executing, events, emitted, heardText, turns,
                 toolLog>>
  /\ UNCHANGED <<streamVars, utilVars>>

\* the first next() of runAgentLoopStreaming(request, tools, options), up to
\* its first await
AgentStreamingStart ==
  /\ agentPc = "idle"
  /\ loop' = "runAgentLoopStreaming"
  /\ messages' = RequestMessages
  /\ iterations' = 0
  /\ StreamingLoopHead(0, <<>>)
  /\ UNCHANGED <<maxIterations, lastResponse, toolIdx, result, chatCalls,
                 toolExecs, firstResponse, executing, heardText, turns,
                 toolLog>>
  /\ UNCHANGED <<streamVars, utilVars>>

\* `await this.chat(...)` settles: the error propagates, the response without
\* tool calls is returned, or the assistant message is pushed and the for
\* loop over response.toolCalls begins
AgentChatDone ==
  /\ agentPc = "chat"
  /\ pc[Agent] = "done"
  /\ IF outcome[Agent] # "ok"
     THEN /\ agentPc' = "threw"
          /\ UNCHANGED <<messages, lastResponse, toolIdx, result, firstResponse,
                         emitted, turns>>
     ELSE LET r == reply[Agent][1] IN
          /\ lastResponse' = <<r>>
          /\ turns' = Append(turns, Turn(r.content, r.toolCalls))
          /\ firstResponse' = IF firstResponse = <<>> THEN <<r>> ELSE firstResponse
          /\ emitted' = [i \in 1..Len(r.toolCalls) |->
                          PartialCall(r.toolCalls[i].id, r.toolCalls[i].name, "args")]
          /\ IF NoToolCalls(r)
             THEN /\ result' = <<r>>
                  /\ agentPc' = "returned"
                  /\ UNCHANGED <<messages, toolIdx>>
             ELSE /\ messages' = Pushed(messages, AssistantMessage(r.content, r.toolCalls))
                  /\ agentPc' = "tools"
                  /\ toolIdx' = 1
                  /\ UNCHANGED result
  /\ UNCHANGED <<maxIterations, iterations, chatCalls, toolExecs, loop,
                 currentText, toolCalls, executing, events, sentLog,
                 heardText, toolLog>>
  /\ UNCHANGED <<gatewayVars, streamVars, utilVars>>

\* the stream of the turn yields its next chunk and the body of the for await
\* handles it: text is added to currentText and yielded, a tool_call chunk
\* with id, name and arguments is collected and yielded; a stream that raises
\* ends the generator with that error, through finally { releaseSlot() }
AgentStreamChunk ==
  /\ agentPc = "stream"
  /\ pc[Agent] = "streaming"
  /\ streamRest[Agent] # <<>>
  /\ LET chunk == Head(streamRest[Agent]) IN
       IF chunk.type = "raise"
       THEN /\ StreamSettle(Agent, FALSE)
            /\ agentPc' = "threw"
            /\ UNCHANGED <<currentText, toolCalls, events, emitted, heardText>>
       ELSE /\ streamRest' = [streamRest EXCEPT ![Agent] = Tail(@)]
            /\ UNCHANGED <<gatewayVars, agentPc>>
            /\ heardText' = IF chunk.type = "text" /\ chunk.content # ""
                            THEN heardText \o <<chunk.content>> ELSE heardText
            /\ emitted' = IF chunk.type = "tool_call"
                          THEN Append(emitted, chunk.toolCall) ELSE emitted
            /\ IF chunk.type = "text" /\ chunk.content # ""
               THEN /\ currentText' = currentText \o <<chunk.content>>
                    /\ events' = Append(events, Event("text", chunk.content, ""))
                    /\ UNCHANGED toolCalls
               ELSE IF chunk.type = "tool_call" /\ Complete(chunk.toolCall)
               THEN /\ toolCalls' = Collected(toolCalls,
                                      ToolCall(chunk.toolCall.id, chunk.toolCall.name))
                    /\ events' = Append(events,
                                   Event("tool_call", "", chunk.toolCall.name))
                    /\ UNCHANGED currentText
               ELSE UNCHANGED <<currentText, toolCalls, events>>
  /\ UNCHANGED <<maxIterations, messages, iterations, lastResponse, toolIdx,
                 result, chatCalls, toolExecs, firstResponse, loop, executing,
                 sentLog, turns, toolLog>>
  /\ UNCHANGED utilVars

\* the stream of the turn is exhausted: the slot is released, and the loop
\* yields done when no tool call was collected, or pushes the assistant
\* message and begins the for loop over toolCalls
AgentStreamDone ==
  /\ agentPc = "stream"
  /\ pc[Agent] = "streaming"
  /\ streamRest[Agent] = <<>>
  /\ StreamSettle(Agent, TRUE)
  /\ turns' = Append(turns, Turn(heardText, Heard(emitted)))
  /\ heardText' = <<>>
  /\ IF Len(toolCalls) = 0
     THEN /\ events' = YieldDone(events)
          /\ agentPc' = "returned"
          /\ UNCHANGED <<messages, toolIdx>>
     ELSE /\ messages' = Pushed(messages, AssistantMessage(currentText, toolCalls))
          /\ agentPc' = "tools"
          /\ toolIdx' = 1
          /\ UNCHANGED events
  /\ UNCHANGED <<maxIterations, iterations, lastResponse, result, chatCalls,
                 toolExecs, firstResponse, loop, currentText, toolCalls,
                 executing, sentLog, emitted, toolLog>>
  /\ UNCHANGED utilVars

\* the tool message of call tc is pushed; runAgentLoopStreaming yields the
\* tool_result event before it
ToolDone(tc) ==
  /\ messages' = Pushed(messages, ToolMessage(tc, ToolResultOf(tc)))
  /\ events' = IF loop = "runAgentLoopStreaming"
               THEN Append(events, Event("tool_result", ToolResultOf(tc), tc.name))
               ELSE events
  /\ toolIdx' = toolIdx + 1

\* one round of the for loop over the tool calls of the turn, up to its
\* await: a tool without executor gets its not-found message at once, an
\* executor is invoked and awaited; after the last call iterations++ and the
\* loop test
AgentToolStep ==
  /\ agentPc = "tools"
  /\ IF toolIdx <= Len(TurnCalls)
     THEN /\ IF HasExecutor(TurnCalls[toolIdx])
             THEN /\ executing' = Append(executing, TurnCalls[toolIdx])
                  /\ toolExecs' = toolExecs + 1
                  /\ toolLog' = Append(toolLog, TurnCalls[toolIdx])
                  /\ agentPc' = "executing"
                  /\ UNCHANGED <<messages, events, toolIdx>>
             ELSE /\ ToolDone(TurnCalls[toolIdx])
                  /\ UNCHANGED <<executing, toolExecs, agentPc, toolLog>>
          /\ UNCHANGED <<iterations, result, chatCalls, sentLog, currentText,
                         toolCalls, emitted>>
          /\ UNCHANGED gatewayVars
     ELSE /\ iterations' = iterations + 1
          /\ toolIdx' = 0
          /\ UNCHANGED <<messages, toolExecs, executing, toolLog>>
          /\ IF loop = "runAgentLoop"
             THEN /\ LoopHead(iterations + 1, lastResponse)
                  /\ UNCHANGED <<currentText, toolCalls, events, emitted>>
             ELSE /\ StreamingLoopHead(iterations + 1, events)
                  /\ UNCHANGED <<result, chatCalls>>
  /\ UNCHANGED <<maxIterations, lastResponse, firstResponse, loop, heardText,
                 turns>>
  /\ UNCHANGED <<streamVars, utilVars>>

AgentToolSettleEscapes ==
  /\ agentPc = "executing"
  /\ executing' = <<>>
  /\ IF FindTool(executing[1].name)[1].execute = "throws"
     THEN /\ agentPc' = "threw"
          /\ UNCHANGED <<messages, events, toolIdx>>
     ELSE /\ ToolDone(executing[1])
          /\ agentPc' = "tools"
  /\ UNCHANGED <<maxIterations, iterations, lastResponse, result, chatCalls,
                 toolExecs, firstResponse, loop, currentText, toolCalls,
                 sentLog, emitted, heardText, turns, toolLog>>
  /\ UNCHANGED <<gatewayVars, streamVars, utilVars>>

\* `await tool.execute(...)` settles: its value, or `Error: ` and the message
\* of what it threw, becomes the tool message of the call
AgentToolSettle ==
  /\ agentPc = "executing"
  /\ executing' = <<>>
  /\ ToolDone(executing[1])
  /\ agentPc' = "tools"
  /\ UNCHANGED <<maxIterations, iterations, lastResponse, result, chatCalls,
                 toolExecs, firstResponse, loop, currentText, toolCalls,
                 sentLog, emitted, heardText, turns, toolLog>>
  /\ UNCHANGED <<gatewayVars, streamVars, utilVars>>

\* ------------------------------------------------------------ executeTools
\* the ids of the tool calls of a response, by position
CallIds == <<"t1", "t2", "t3", "t4", "t5">>

\* the names a tool call can carry: the tools above and a name that is no tool
CallNames == {"search", "broken", "noexec", "ghost"}

\* the toolCalls lists of the response argument, up to MaxToolCalls calls
CallLists ==
  UNION {{[i \in 1..n |-> ToolCall(CallIds[i], names[i])] :
            names \in [1..n -> CallNames]} : n \in 0..MaxToolCalls}

\* the response argument: toolCalls absent, or one of the lists
ToolResponses ==
  {Response(0, <<"step">>, FALSE, <<>>)}
    \cup {Response(0, <<"step">>, TRUE, tc) : tc \in CallLists}

\* a ToolResult; isError FALSE stands for the field not being set
ToolResult(toolCallId, text, isError) ==
  [toolCallId |-> toolCallId, result |-> text, isError |-> isError]

\* the result pushed for a call whose tool is missing or has no execute
NotFoundResult(tc) ==
  ToolResult(tc.id, <<"Error: Tool '", tc.name, "' not found or has no executor">>, TRUE)

\* the result pushed when the awaited execute settles: its value, or the
\* catch block's `Error: ` and the message of what was thrown
SettledResult(tc) ==
  IF FindTool(tc.name)[1].execute = "throws"
  THEN ToolResult(tc.id, <<"Error: ", "boom">>, TRUE)
  ELSE ToolResult(tc.id, <<"result of ", tc.name>>, FALSE)

ResultsUnshifted(rs, r) == <<r>> \o rs

\* results.push(r)
ResultsPushed(rs, r) == Append(rs, r)

\* an executeTools(response, tools) call is still to be made, with response
\* drawn from ToolResponses and tools the list Tools
ExecuteToolsPending ==
  /\ etPc = "idle"
  /\ etResponse \in ToolResponses
  /\ etIdx = 0
  /\ results = <<>>
  /\ etRan = <<>>

\* no executeTools call is made
NoExecuteTools ==
  /\ etPc = "unused"
  /\ etResponse = Response(0, <<>>, FALSE, <<>>)
  /\ etIdx = 0
  /\ results = <<>>
  /\ etRan = <<>>

\* executeTools up to the for loop: if (!response.toolCalls?.length) return []
ExecuteToolsStart ==
  /\ etPc = "idle"
  /\ IF NoToolCalls(etResponse)
     THEN etPc' = "returned" /\ etIdx' = 0
     ELSE etPc' = "loop" /\ etIdx' = 1
  /\ results' = <<>>
  /\ UNCHANGED <<etResponse, etRan>>
  /\ UNCHANGED <<gatewayVars, agentVars, streamVars, windowVars, tokenVars, retryVars, extVars>>

\* one round of the for loop up to its await, or `return results` after the
\* last call
ExecuteToolsStep ==
  /\ etPc = "loop"
  /\ IF etIdx > Len(etResponse.toolCalls)
     THEN /\ etPc' = "returned"
          /\ UNCHANGED <<etIdx, results, etRan>>
     ELSE LET tc == etResponse.toolCalls[etIdx] IN
          IF ~HasExecutor(tc)
          THEN /\ results' = ResultsPushed(results, NotFoundResult(tc))
               /\ etIdx' = etIdx + 1
               /\ UNCHANGED <<etPc, etRan>>
          ELSE /\ etRan' = Append(etRan, tc)
               /\ etPc' = "executing"
               /\ UNCHANGED <<etIdx, results>>
  /\ UNCHANGED etResponse
  /\ UNCHANGED <<gatewayVars, agentVars, streamVars, windowVars, tokenVars, retryVars, extVars>>

ExecuteToolsSettleEscapes ==
  /\ etPc = "executing"
  /\ LET tc == etResponse.toolCalls[etIdx] IN
       IF FindTool(tc.name)[1].execute = "throws"
       THEN etPc' = "threw" /\ UNCHANGED <<results, etIdx>>
       ELSE /\ results' = ResultsPushed(results, SettledResult(tc))
            /\ etIdx' = etIdx + 1
            /\ etPc' = "loop"
  /\ UNCHANGED <<etResponse, etRan>>
  /\ UNCHANGED <<gatewayVars, agentVars, streamVars, windowVars, tokenVars, retryVars, extVars>>

\* `await tool.execute(call.arguments, context)` settles
ExecuteToolsSettle ==
  /\ etPc = "executing"
  /\ results' = ResultsPushed(results, SettledResult(etResponse.toolCalls[etIdx]))
  /\ etIdx' = etIdx + 1
  /\ etPc' = "loop"
  /\ UNCHANGED <<etResponse, etRan>>
  /\ UNCHANGED <<gatewayVars, agentVars, streamVars, windowVars, tokenVars, retryVars, extVars>>

\* ------------------------------------------------- SlidingWindowRateLimiter
Acquirers == 1..NumAcquirers

\* cleanup at time t: requests.filter(time => time > Date.now() - windowMs)
Cleanup(reqs, t) == SelectSeq(reqs, LAMBDA time : time > t - WindowMs)

WaitTimeShort(oldest, t) == oldest + WindowMs - t - 1

\* const waitTime = oldestRequest + this.windowMs - Date.now()
WaitTime(oldest, t) == oldest + WindowMs - t

\* `this.requests.length >= this.maxRequests` and `waitTime > 0`; with no
\* request recorded requests[0] is undefined, waitTime is NaN and the test fails
MustSleep(reqs, t) ==
  /\ Len(reqs) >= maxRequests
  /\ reqs # <<>>
  /\ WaitTime(reqs[1], t) > 0

\* the acquire calls that have started and not completed
SwPending == {c \in Acquirers : swPc[c] = "sleeping"}

\* a new SlidingWindowRateLimiter(maxRequests, WindowMs) for each maxRequests
\* in limits, on which no acquire has run
WindowConstructed(limits) ==
  /\ maxRequests \in limits
  /\ requests = <<>>
  /\ swPc = [c \in Acquirers |-> "idle"]
  /\ swWake = [c \in Acquirers |-> 0]
  /\ swOldest = [c \in Acquirers |-> 0]
  /\ swAdmitted = <<>>
  /\ swRemaining = <<>>

\* no SlidingWindowRateLimiter is used
NoWindow ==
  /\ maxRequests = 0
  /\ requests = <<>>
  /\ swPc = [c \in Acquirers |-> "unused"]
  /\ swWake = [c \in Acquirers |-> 0]
  /\ swOldest = [c \in Acquirers |-> 0]
  /\ swAdmitted = <<>>
  /\ swRemaining = <<>>

\* this.requests.push(Date.now()): the acquire() call of c completes
WindowAdmit(c, reqs) ==
  /\ requests' = Append(reqs, now)
  /\ swAdmitted' = Append(swAdmitted, now)
  /\ swPc' = [swPc EXCEPT ![c] = "idle"]

\* acquire() up to its await: cleanup, then either the push or the setTimeout
\* for waitTime
WindowAcquire(c) ==
  /\ swPc[c] = "idle"
  /\ Len(swAdmitted) + Cardinality(SwPending) < MaxAcquires
  /\ LET reqs == Cleanup(requests, now) IN
       IF MustSleep(reqs, now)
       THEN /\ requests' = reqs
            /\ swPc' = [swPc EXCEPT ![c] = "sleeping"]
            /\ swWake' = [swWake EXCEPT ![c] = now + WaitTime(reqs[1], now)]
            /\ swOldest' = [swOldest EXCEPT ![c] = reqs[1]]
            /\ UNCHANGED swAdmitted
       ELSE /\ WindowAdmit(c, reqs)
            /\ swOldest' = [swOldest EXCEPT ![c] = 0]
            /\ UNCHANGED swWake
  /\ UNCHANGED <<maxRequests, swRemaining>>
  /\ UNCHANGED <<gatewayVars, agentVars, streamVars, toolVars, tokenVars, retryVars, extVars>>

\* the timer of a sleeping acquire() fires, at its due time or later: cleanup
\* and the push
WindowWake(c) ==
  /\ swPc[c] = "sleeping"
  /\ now >= swWake[c]
  /\ WindowAdmit(c, Cleanup(requests, now))
  /\ UNCHANGED <<maxRequests, swWake, swOldest, swRemaining>>
  /\ UNCHANGED <<gatewayVars, agentVars, streamVars, toolVars, tokenVars, retryVars, extVars>>

\* the admitted requests whose timestamp lies within the last WindowMs
InWindow(admitted, t) == Cardinality({i \in 1..Len(admitted) : admitted[i] > t - WindowMs})

\* getRemainingRequests(): cleanup, then Math.max(0, maxRequests - length);
\* recorded with the number of admitted requests inside the window
GetRemainingRequests ==
  /\ requests' = Cleanup(requests, now)
  /\ swRemaining' = <<[value |-> Max(0, maxRequests - Len(Cleanup(requests, now))),
                       inWindow |-> InWindow(swAdmitted, now)]>>
  /\ UNCHANGED <<maxRequests, swPc, swWake, swOldest, swAdmitted>>
  /\ UNCHANGED <<gatewayVars, agentVars, streamVars, toolVars, tokenVars, retryVars, extVars>>

\* the clock advances while a limiter or a retry is in use
Elapse ==
  /\ now < StartTime + LimiterHorizon
  /\ now' = now + 1
  /\ UNCHANGED <<gatewayState, agentVars, streamVars, utilVars>>

\* ---------------------------------------------------------- TokenRateLimiter
\* cleanup at time t: tokensUsed.filter(entry => entry.time > Date.now() - 60000),
\* the minute being WindowMs clock ticks
TokenCleanup(used, t) == SelectSeq(used, LAMBDA entry : entry.time > t - WindowMs)

\* tokensUsed.reduce((sum, entry) => sum + entry.count, 0)
RECURSIVE Usage(_)
Usage(used) == IF used = <<>> THEN 0 ELSE Head(used).count + Usage(Tail(used))

\* the for loop of getWaitTime: the first entry with which tokensToFree is
\* used up gives the wait, and without one the wait is a minute
RECURSIVE FreeWait(_, _, _)
FreeWait(used, tokensToFree, t) ==
  IF used = <<>> THEN WindowMs
  ELSE IF tokensToFree - Head(used).count <= 0 THEN Head(used).time + WindowMs - t
  ELSE FreeWait(Tail(used), tokensToFree - Head(used).count, t)

\* getWaitTime(tokenCount)
GetWaitTime(used, tokenCount, t) ==
  IF Len(used) = 0 THEN 0
  ELSE FreeWait(used, Usage(used) + tokenCount - maxTokensPerMinute, t)

TkPending == {c \in Acquirers : tkPc[c] = "sleeping"}

\* a new TokenRateLimiter(maxTokensPerMinute) for each value in limits
TokensConstructed(limits) ==
  /\ maxTokensPerMinute \in limits
  /\ tokensUsed = <<>>
  /\ tkPc = [c \in Acquirers |-> "idle"]
  /\ tkCount = [c \in Acquirers |-> 0]
  /\ tkWake = [c \in Acquirers |-> 0]
  /\ tkAdmitted = <<>>

\* no TokenRateLimiter is used
NoTokens ==
  /\ maxTokensPerMinute = 0
  /\ tokensUsed = <<>>
  /\ tkPc = [c \in Acquirers |-> "unused"]
  /\ tkCount = [c \in Acquirers |-> 0]
  /\ tkWake = [c \in Acquirers |-> 0]
  /\ tkAdmitted = <<>>

\* this.tokensUsed.push({ count: tokenCount, time: Date.now() })
TokenAdmit(c, used, tokenCount) ==
  /\ tokensUsed' = Append(used, [count |-> tokenCount, time |-> now])
  /\ tkAdmitted' = Append(tkAdmitted, [count |-> tokenCount, time |-> now])
  /\ tkPc' = [tkPc EXCEPT ![c] = "idle"]

\* acquire(tokenCount) up to its await
TokenAcquire(c, tokenCount) ==
  /\ tkPc[c] = "idle"
  /\ Len(tkAdmitted) + Cardinality(TkPending) < MaxAcquires
  /\ LET used == TokenCleanup(tokensUsed, now) IN
       IF Usage(used) + tokenCount > maxTokensPerMinute
          /\ GetWaitTime(used, tokenCount, now) > 0
       THEN /\ tokensUsed' = used
            /\ tkPc' = [tkPc EXCEPT ![c] = "sleeping"]
            /\ tkCount' = [tkCount EXCEPT ![c] = tokenCount]
            /\ tkWake' = [tkWake EXCEPT ![c] = now + GetWaitTime(used, tokenCount, now)]
            /\ UNCHANGED tkAdmitted
       ELSE /\ TokenAdmit(c, used, tokenCount)
            /\ UNCHANGED <<tkCount, tkWake>>
  /\ UNCHANGED maxTokensPerMinute
  /\ UNCHANGED <<gatewayVars, agentVars, streamVars, toolVars, windowVars, retryVars, extVars>>

\* the timer of a sleeping acquire(tokenCount) fires: cleanup and the push
TokenWake(c) ==
  /\ tkPc[c] = "sleeping"
  /\ now >= tkWake[c]
  /\ TokenAdmit(c, TokenCleanup(tokensUsed, now), tkCount[c])
  /\ tkCount' = [tkCount EXCEPT ![c] = 0]
  /\ UNCHANGED <<maxTokensPerMinute, tkWake>>
  /\ UNCHANGED <<gatewayVars, agentVars, streamVars, toolVars, windowVars, retryVars, extVars>>

\* ---------------------------------------------------------------- withRetry
\* what fn can throw: an LLMError with its retryable flag and code, an Error
\* with its message, or a value that is no Error
Thrown(class, retryable, code, message) ==
  [class |-> class, retryable |-> retryable, code |-> code, message |-> message]

ErrorsThrown ==
  {Thrown("LLMError", TRUE, "RATE_LIMIT", "rate limit exceeded"),
   Thrown("LLMError", TRUE, "SERVER_ERROR", "overloaded"),
   Thrown("LLMError", FALSE, "AUTH_ERROR", "invalid key"),
   Thrown("Error", FALSE, "", "network unreachable"),
   Thrown("Error", FALSE, "", "bad input"),
   Thrown("value", FALSE, "", "")}

\* what a resolved fn() is recorded as: nothing was thrown
Resolved == Thrown("none", FALSE, "", "")

\* new Error('Retry failed')
RetryFailed == Thrown("Error", FALSE, "", "Retry failed")

\* the messages that contain network, timeout, econnreset, econnrefused or
\* socket hang up
NetworkMessages == {"network unreachable"}

\* isRetryableError(error)
isRetryableError(e) ==
  IF e.class = "LLMError" THEN e.retryable
  ELSE IF e.class = "Error" THEN e.message \in NetworkMessages
  ELSE FALSE

\* error instanceof LLMError && config.retryableErrors, and the code is not in
\* the list; an omitted list is <<>>, a given one <<list>>
CodeExcluded(e, cfg) ==
  /\ e.class = "LLMError"
  /\ cfg.retryableErrors # <<>>
  /\ e.code \notin cfg.retryableErrors[1]

RetriesLeftInclusive(att, cfg) == att <= cfg.maxRetries

\* the negation of `if (attempt >= config.maxRetries) throw error`
RetriesLeft(att, cfg) == ~(att >= cfg.maxRetries)

\* the jitter draws taken: none, and the extremes of plus or minus 10 percent
Jitters(d) == {0 - (d \div 10), 0, d \div 10}

\* Math.min(delay * backoffMultiplier, maxDelayMs), before the jitter
BackedOff(d, cfg) ==
  IF d * cfg.backoffMultiplier <= cfg.maxDelayMs
  THEN d * cfg.backoffMultiplier ELSE cfg.maxDelayMs

\* addJitter(delay): Math.max(0, delay + jitter)
addJitter(d, jitter) == Max(0, d + jitter)

\* the config argument
RetryConfigs ==
  {[maxRetries |-> m, initialDelayMs |-> InitialDelayMs, maxDelayMs |-> MaxDelayMs,
    backoffMultiplier |-> BackoffMultiplier, retryableErrors |-> listed] :
     m \in (0 - 1)..MaxRetries, listed \in {<<>>, <<{"RATE_LIMIT"}>>}}

\* a withRetry(fn, config) call is still to be made
RetryPending ==
  /\ retryConfig \in RetryConfigs
  /\ rtPc = "idle"
  /\ attempt = 0
  /\ fnCalls = 0
  /\ fnLog = <<>>
  /\ rtOutcome = <<>>
  /\ delay = 0
  /\ sleeps = <<>>

\* no withRetry call is made
NoRetry ==
  /\ retryConfig = <<>>
  /\ rtPc = "unused"
  /\ attempt = 0
  /\ fnCalls = 0
  /\ fnLog = <<>>
  /\ rtOutcome = <<>>
  /\ delay = 0
  /\ sleeps = <<>>

\* the for loop test with loop variable att: the next `await fn()`, or
\* `throw lastError || new Error('Retry failed')` after the loop
RetryLoopHead(att, last) ==
  IF att <= retryConfig.maxRetries
  THEN /\ fnCalls' = fnCalls + 1
       /\ rtPc' = "fn"
       /\ UNCHANGED rtOutcome
  ELSE /\ rtOutcome' = IF last = <<>> THEN <<"throw", RetryFailed>>
                       ELSE <<"throw", last[1]>>
       /\ rtPc' = "threw"
       /\ UNCHANGED fnCalls

\* withRetry(fn, config) up to its first await
RetryStart ==
  /\ rtPc = "idle"
  /\ delay' = retryConfig.initialDelayMs
  /\ attempt' = 0
  /\ RetryLoopHead(0, <<>>)
  /\ UNCHANGED <<retryConfig, fnLog, sleeps>>
  /\ UNCHANGED <<gatewayVars, agentVars, streamVars, toolVars, windowVars, tokenVars, extVars>>

\* fn() resolves: return await fn()
FnResolves ==
  /\ rtPc = "fn"
  /\ fnLog' = Append(fnLog, Resolved)
  /\ rtOutcome' = <<"return", Resolved>>
  /\ rtPc' = "returned"
  /\ UNCHANGED <<retryConfig, attempt, fnCalls, delay, sleeps>>
  /\ UNCHANGED <<gatewayVars, agentVars, streamVars, toolVars, windowVars, tokenVars, extVars>>

\* fn() rejects with e: the catch block up to `await sleep(delay)`
FnRejects(e) ==
  /\ rtPc = "fn"
  /\ fnLog' = Append(fnLog, e)
  /\ IF \/ ~isRetryableError(e)
        \/ ~RetriesLeft(attempt, retryConfig)
        \/ CodeExcluded(e, retryConfig)
     THEN /\ rtOutcome' = <<"throw", e>>
          /\ rtPc' = "threw"
          /\ UNCHANGED sleeps
     ELSE /\ sleeps' = Append(sleeps, delay)
          /\ rtPc' = "sleeping"
          /\ UNCHANGED rtOutcome
  /\ UNCHANGED <<retryConfig, attempt, fnCalls, delay>>
  /\ UNCHANGED <<gatewayVars, agentVars, streamVars, toolVars, windowVars, tokenVars, extVars>>

\* sleep(delay) is over: the next delay with backoff and jitter, attempt++
\* and the loop test
RetryWake(jitter) ==
  /\ rtPc = "sleeping"
  /\ jitter \in Jitters(BackedOff(delay, retryConfig))
  /\ delay' = addJitter(BackedOff(delay, retryConfig), jitter)
  /\ attempt' = attempt + 1
  /\ RetryLoopHead(attempt + 1, <<fnLog[Len(fnLog)]>>)
  /\ UNCHANGED <<retryConfig, fnLog, sleeps>>
  /\ UNCHANGED <<gatewayVars, agentVars, streamVars, toolVars, windowVars, tokenVars, extVars>>

\* ------------------------------------------------- per-provider rate limit
\* The CombinedRateLimiter of the one provider that has a rateLimit is made of
\* the SlidingWindowRateLimiter and the TokenRateLimiter above: requestsPerMinute
\* is maxRequests, tokensPerMinute is maxTokensPerMinute (0 when the config
\* omits it, and then there is no tokenLimiter).

\* a ChatRequest: maxTokens (0 when omitted) and the estimated tokens of its
\* serialized messages
Req(maxTokens, size) == [maxTokens |-> maxTokens, size |-> size]

NoRequest == Req(0, 0)

Requests == {Req(m, s) : m \in 0..MaxTokens, s \in 1..MaxSize}

\* the tasks that call chat, as many as it takes to open the breaker, and the
\* task that consumes streams
Chatters == 1..FailureThreshold

Streamers == {FailureThreshold + 1}

\* the tasks that call the client whose provider has a rateLimit
LimitedCallers == (1..(FailureThreshold + 1)) \cap Acquirers

ChargedCallers == {1, 2}

\* limiter.acquire(request.maxTokens): the estimatedTokens argument
EstimatedTokens(req) == req.maxTokens

\* if (this.tokenLimiter && estimatedTokens)
ChargesTokens(req) == maxTokensPerMinute # 0 /\ EstimatedTokens(req) # 0

\* no provider has a rateLimit, and no call carries a request of interest
NoLimiter ==
  /\ providerLimiters = {}
  /\ limiter = [c \in Procs |-> "none"]
  /\ request = [c \in Procs |-> NoRequest]
  /\ charged = <<>>

\* the providers in limited have a rateLimit
Limited(limited) ==
  /\ providerLimiters = limited
  /\ limiter = [c \in Procs |-> "none"]
  /\ request = [c \in Procs |-> NoRequest]
  /\ charged = <<>>

\* a task calls chat, chatWith, stream or streamWith with request req; who
\* tells how a stream will be consumed
CallWithRequest(c, k, p, req, who) ==
  /\ pc[c] = "idle"
  /\ Call(c, k, p)
  /\ request' = [request EXCEPT ![c] = req]
  /\ consumer' = [consumer EXCEPT ![c] = who]
  /\ UNCHANGED <<providerLimiters, limiter, charged, aborted, received, processed,
                 textBuffer, cbResult>>
  /\ UNCHANGED <<agentVars, streamVars, toolVars, windowVars, tokenVars,
                 retryVars, adapterVars, sdkVars>>

ChatRequest(c, req) == CallWithRequest(c, "chat", "none", req, "none")

ChatWithRequest(c, p, req) == CallWithRequest(c, "chatWith", p, req, "none")

\* `for await (const chunk of client.stream(req))` by a task
Stream(c, req) == CallWithRequest(c, "stream", "none", req, "iterator")

StreamWith(c, p, req) == CallWithRequest(c, "streamWith", p, req, "iterator")

\* the frame of a step of limiter.acquire inside a call
LimiterFrame ==
  /\ UNCHANGED <<providers, concurrencyLimit, activeRequests, requestQueue,
                 resolved, activeProvider, providerCircuitBreakers, now, call,
                 target, outcome, slotAcquires, slotReleases, enqLog, admitLog,
                 admittedAs, failStreak, reply>>
  /\ UNCHANGED <<maxRequests, swRemaining, maxTokensPerMinute>>
  /\ UNCHANGED <<providerLimiters, request>>
  /\ UNCHANGED <<agentVars, streamVars, toolVars, retryVars, consumerVars,
                 adapterVars, sdkVars>>

\* `if (limiter) await limiter.acquire(request.maxTokens)` up to the await
\* inside requestLimiter.acquire(): cleanup, then the push or the setTimeout
LimiterAcquire(c) ==
  /\ pc[c] = "acquired"
  /\ call[c].kind # "none"
  /\ Addressed(c) \in providerLimiters
  /\ LET reqs == Cleanup(requests, now) IN
       IF MustSleep(reqs, now)
       THEN /\ requests' = reqs
            /\ swPc' = [swPc EXCEPT ![c] = "sleeping"]
            /\ swWake' = [swWake EXCEPT ![c] = now + WaitTime(reqs[1], now)]
            /\ swOldest' = [swOldest EXCEPT ![c] = reqs[1]]
            /\ pc' = [pc EXCEPT ![c] = "requestSleep"]
            /\ UNCHANGED swAdmitted
       ELSE /\ WindowAdmit(c, reqs)
            /\ swOldest' = [swOldest EXCEPT ![c] = 0]
            /\ pc' = [pc EXCEPT ![c] = "requestAdmitted"]
            /\ UNCHANGED swWake
  /\ limiter' = [limiter EXCEPT ![c] = Addressed(c)]
  /\ UNCHANGED <<tokenVars, charged>>
  /\ LimiterFrame

\* the timer of requestLimiter.acquire() fires
LimiterWake(c) ==
  /\ pc[c] = "requestSleep"
  /\ now >= swWake[c]
  /\ WindowAdmit(c, Cleanup(requests, now))
  /\ pc' = [pc EXCEPT ![c] = "requestAdmitted"]
  /\ UNCHANGED <<swWake, swOldest>>
  /\ UNCHANGED <<tokenVars, charged, limiter>>
  /\ LimiterFrame

\* what the call passes on to the token limiter
Charge(c, req) ==
  [caller |-> c, size |-> req.size, maxTokens |-> req.maxTokens,
   cost |-> IF ChargesTokens(req) THEN EstimatedTokens(req) ELSE 0]

\* CombinedRateLimiter.acquire after `await this.requestLimiter.acquire()`:
\* tokenLimiter.acquire(estimatedTokens) up to its await, or nothing
LimiterTokens(c) ==
  /\ pc[c] = "requestAdmitted"
  /\ charged' = Append(charged, Charge(c, request[c]))
  /\ IF ChargesTokens(request[c])
     THEN LET used == TokenCleanup(tokensUsed, now)
              tokenCount == EstimatedTokens(request[c]) IN
          IF Usage(used) + tokenCount > maxTokensPerMinute
             /\ GetWaitTime(used, tokenCount, now) > 0
          THEN /\ tokensUsed' = used
               /\ tkPc' = [tkPc EXCEPT ![c] = "sleeping"]
               /\ tkCount' = [tkCount EXCEPT ![c] = tokenCount]
               /\ tkWake' = [tkWake EXCEPT
                               ![c] = now + GetWaitTime(used, tokenCount, now)]
               /\ pc' = [pc EXCEPT ![c] = "tokenSleep"]
               /\ UNCHANGED tkAdmitted
          ELSE /\ TokenAdmit(c, used, tokenCount)
               /\ pc' = [pc EXCEPT ![c] = "limited"]
               /\ UNCHANGED <<tkCount, tkWake>>
     ELSE /\ pc' = [pc EXCEPT ![c] = "limited"]
          /\ UNCHANGED <<tokensUsed, tkPc, tkCount, tkWake, tkAdmitted>>
  /\ UNCHANGED <<requests, swPc, swWake, swOldest, swAdmitted, limiter>>
  /\ LimiterFrame

\* the timer of tokenLimiter.acquire(estimatedTokens) fires
LimiterTokenWake(c) ==
  /\ pc[c] = "tokenSleep"
  /\ now >= tkWake[c]
  /\ TokenAdmit(c, TokenCleanup(tokensUsed, now), tkCount[c])
  /\ tkCount' = [tkCount EXCEPT ![c] = 0]
  /\ pc' = [pc EXCEPT ![c] = "limited"]
  /\ UNCHANGED tkWake
  /\ UNCHANGED <<requests, swPc, swWake, swOldest, swAdmitted, charged,
                 limiter>>
  /\ LimiterFrame

\* ---------------------------------------------------------- stream consumers
DoneChunk == Chunk("done", "", NoToolCall)

ErrorChunk == Chunk("error", "", NoToolCall)

\* what the adapter's stream can yield to a direct consumer: text and done,
\* text and an error chunk, and a stream that raises
ClientStreams ==
  {<<TextChunk("a"), TextChunk("b"), DoneChunk>>,
   <<TextChunk("a"), ErrorChunk>>,
   <<TextChunk("a"), Raise>>}

\* no stream has a consumer
NoConsumers ==
  /\ consumer = [c \in Procs |-> "none"]
  /\ aborted = [c \in Procs |-> FALSE]
  /\ received = [c \in Procs |-> <<>>]
  /\ processed = [c \in Procs |-> <<>>]
  /\ textBuffer = [c \in Procs |-> <<>>]
  /\ cbResult = [c \in Procs |-> <<>>]

\* streamWithCallbacks(request, options) up to the first await of this.stream
StreamWithCallbacks(c, req) == CallWithRequest(c, "stream", "none", req, "callbacks")

\* the frame of a step of a stream consumer
ConsumerFrame ==
  /\ UNCHANGED <<consumer, aborted>>
  /\ UNCHANGED <<agentVars, toolVars, windowVars, tokenVars, retryVars,
                 limitVars, adapterVars, sdkVars>>

\* next() of the iterating task: a chunk, the end of the stream, or the error
\* the stream raises (both through finally { releaseSlot() })
IterNext(c) ==
  /\ consumer[c] = "iterator"
  /\ pc[c] = "streaming"
  /\ IF streamRest[c] = <<>>
     THEN /\ StreamSettle(c, TRUE)
          /\ cbResult' = [cbResult EXCEPT ![c] = <<"ended">>]
          /\ UNCHANGED received
     ELSE IF Head(streamRest[c]).type = "raise"
     THEN /\ StreamSettle(c, FALSE)
          /\ cbResult' = [cbResult EXCEPT ![c] = <<"threw">>]
          /\ UNCHANGED received
     ELSE /\ received' = [received EXCEPT ![c] = Append(@, Head(streamRest[c]))]
          /\ streamRest' = [streamRest EXCEPT ![c] = Tail(@)]
          /\ UNCHANGED <<gatewayVars, cbResult>>
  /\ UNCHANGED <<processed, textBuffer>>
  /\ ConsumerFrame

\* the iterating task leaves its loop early: return() on the generator runs
\* finally { releaseSlot() }
IterReturn(c) ==
  /\ consumer[c] = "iterator"
  /\ pc[c] = "streaming"
  /\ received[c] # <<>>
  /\ StreamSettle(c, TRUE)
  /\ cbResult' = [cbResult EXCEPT ![c] = <<"returned">>]
  /\ UNCHANGED <<received, processed, textBuffer>>
  /\ ConsumerFrame

ProcessedAnyway(flag) == FALSE

\* if (options.signal?.aborted) break
Breaks(flag) == flag

\* processChunk on textBuffer: `this.textBuffer += chunk.content` for a text
\* chunk with content
TextAfter(buffer, chunk) ==
  IF chunk.type = "text" /\ chunk.content # "" THEN buffer \o <<chunk.content>>
  ELSE buffer

\* one round of the for await of streamWithCallbacks: the stream ends and the
\* response is returned, the stream raises and the call rejects, or a chunk
\* arrives and is processed unless the signal is aborted, in which case the
\* loop is left, return() on the generator releases the slot, and the
\* response is returned
CallbackNext(c) ==
  /\ consumer[c] = "callbacks"
  /\ pc[c] = "streaming"
  /\ IF streamRest[c] = <<>>
     THEN /\ StreamSettle(c, TRUE)
          /\ cbResult' = [cbResult EXCEPT ![c] = <<"resolved", textBuffer[c]>>]
          /\ UNCHANGED <<received, processed, textBuffer>>
     ELSE IF Head(streamRest[c]).type = "raise"
     THEN /\ StreamSettle(c, FALSE)
          /\ cbResult' = [cbResult EXCEPT ![c] = <<"rejected">>]
          /\ UNCHANGED <<received, processed, textBuffer>>
     ELSE /\ received' = [received EXCEPT ![c] = Append(@, Head(streamRest[c]))]
          /\ IF Breaks(aborted[c])
             THEN /\ StreamSettle(c, TRUE)
                  /\ cbResult' = [cbResult EXCEPT
                                    ![c] = <<"resolved", textBuffer[c]>>]
                  /\ UNCHANGED <<processed, textBuffer>>
             ELSE /\ processed' = [processed EXCEPT
                                     ![c] = Append(@, Head(streamRest[c]))]
                  /\ textBuffer' = [textBuffer EXCEPT
                                      ![c] = TextAfter(@, Head(streamRest[c]))]
                  /\ streamRest' = [streamRest EXCEPT ![c] = Tail(@)]
                  /\ UNCHANGED <<gatewayVars, cbResult>>
  /\ ConsumerFrame

\* the owner of options.signal aborts it while the call is under way
Abort(c) ==
  /\ consumer[c] = "callbacks"
  /\ pc[c] \notin {"idle", "done"}
  /\ ~aborted[c]
  /\ aborted' = [aborted EXCEPT ![c] = TRUE]
  /\ UNCHANGED <<consumer, received, processed, textBuffer, cbResult>>
  /\ UNCHANGED <<gatewayVars, agentVars, streamVars, toolVars, windowVars,
                 tokenVars, retryVars, limitVars, adapterVars, sdkVars>>

\* -------------------------------------------------------- adapters' stream()
Adapters == {"gemini", "openai", "anthropic", "ollama"}

\* the adapters whose vendor streams a tool call's arguments in fragments
Fragmenting == {"openai", "anthropic"}

\* JSON text is a sequence of tokens; "q" is the string literal and "1" the
\* number.  The arguments of the streamed tool call are {"q": 1} or {}.
Doc == <<"{", "q", ":", "1", "}">>

EmptyDoc == <<"{", "}">>

Docs == {Doc, EmptyDoc}

\* a parsed JSON value
Object(props) == [kind |-> "object", props |-> props]

Scalar(kind, value) == [kind |-> kind, props |-> {<<"0", value>>}]

\* JSON.parse(text): <<value>>, or <<>> when it throws SyntaxError
JsonParse(text) ==
  IF text = Doc THEN <<Object({<<"q", "1">>})>>
  ELSE IF text = EmptyDoc THEN <<Object({})>>
  ELSE IF text = <<"q">> THEN <<Scalar("string", "q")>>
  ELSE IF text = <<"1">> THEN <<Scalar("number", "1")>>
  ELSE <<>>

\* the own enumerable properties `...value` copies: those of an object, the
\* characters of a string, none of a number
Spread(value) == IF value.kind = "number" THEN {} ELSE value.props

\* { ...args, ...parsed }
Merged(args, parsed) ==
  {pr \in args : \A qr \in parsed : qr[1] # pr[1]} \cup parsed

\* all ways to cut text into successive non-empty fragments
RECURSIVE Fragmentations(_)
Fragmentations(text) ==
  IF text = <<>> THEN {<<>>}
  ELSE UNION {{<<SubSeq(text, 1, k)>> \o rest :
                 rest \in Fragmentations(SubSeq(text, k + 1, Len(text)))} :
              k \in 1..Len(text)}

\* one event of the vendor's stream; piece is the argument JSON fragment or
\* the arguments document it carries
Vendor(type, piece) == [type |-> type, piece |-> piece]

VText == Vendor("text", <<>>)

\* OpenAI: the first delta.tool_calls entry (index, id, function.name);
\* Anthropic: content_block_start with a tool_use block
VStart == Vendor("tool_start", <<>>)

\* OpenAI: a delta.tool_calls entry with function.arguments; Anthropic:
\* content_block_delta with an input_json_delta
VFragment(piece) == Vendor("fragment", piece)

\* Anthropic: content_block_stop
VStop == Vendor("tool_stop", <<>>)

\* Gemini: a functionCall part; Ollama: a message.tool_calls entry
VCall == Vendor("call", Doc)

\* OpenAI: `data: [DONE]`; Anthropic: message_stop; Ollama: done: true;
\* Gemini: `data: [DONE]`
VTerminal == Vendor("terminal", <<>>)

\* the tool call section of a vendor stream: none, or the start of a call, its
\* arguments cut into fragments (or no fragment at all) and, for Anthropic,
\* the stop of the block or its absence
ToolSections(a) ==
  IF a \in Fragmenting
  THEN {<<>>} \cup
       {<<VStart>> \o [i \in 1..Len(f) |-> VFragment(f[i])] \o stop :
          f \in {<<>>} \cup UNION {Fragmentations(d) : d \in Docs},
          stop \in IF a = "anthropic" THEN {<<>>, <<VStop>>} ELSE {<<>>}}
  ELSE {<<>>, <<VCall>>}

\* the vendor streams of adapter a: text, a tool call section, the terminal
\* event or none, and text after it or none
Wires(a) ==
  {pre \o tool \o term \o post :
     pre \in {<<>>, <<VText>>}, tool \in ToolSections(a),
     term \in {<<>>, <<VTerminal>>}, post \in {<<>>, <<VText>>}}

\* fetch rejects, the response is not OK, the response has no body, or the
\* body can be read
Setups == {"fetch_rejected", "not_ok", "no_body", "ok"}

NoBuffer == [id |-> "", name |-> "", arguments |-> <<>>]

\* a tool_call chunk with its arguments object
ToolChunk(id, name, arguments) ==
  Chunk("tool_call", "", PartialCall(id, name, arguments))

\* no adapter's stream() is looked at
NoAdapter ==
  /\ adapter = "none"
  /\ setup = "ok"
  /\ wire = <<>>
  /\ wireEnd = "end"
  /\ pos = 1
  /\ adPc = "unused"
  /\ chunks = <<>>
  /\ toolCallBuffers = NoBuffer
  /\ currentToolCall = <<>>
  /\ inputJsonBuffer = <<>>

\* stream(request) of one adapter is about to run against one vendor stream
AdapterPending ==
  /\ adapter \in Adapters
  /\ setup \in Setups
  /\ wire \in IF setup = "ok" THEN Wires(adapter) ELSE {<<>>}
  /\ wireEnd \in IF setup = "ok" THEN {"end", "fail"} ELSE {"end"}
  /\ pos = 1
  /\ adPc = "idle"
  /\ chunks = <<>>
  /\ toolCallBuffers = NoBuffer
  /\ currentToolCall = <<>>
  /\ inputJsonBuffer = <<>>

AdapterFrame ==
  /\ UNCHANGED <<adapter, setup, wire, wireEnd>>
  /\ UNCHANGED <<gatewayVars, agentVars, streamVars, toolVars, windowVars,
                 tokenVars, retryVars, limitVars, consumerVars, sdkVars>>

\* yield the chunks cs
Yield(cs) == chunks' = chunks \o cs

\* stream() up to the first read of the body: a rejected fetch and a body
\* that cannot be read are caught and yield an error chunk, a response that
\* is not OK yields an error chunk and returns
AdapterSetup ==
  /\ adPc = "idle"
  /\ IF setup = "ok"
     THEN adPc' = "reading" /\ UNCHANGED chunks
     ELSE adPc' = "ended" /\ Yield(<<ErrorChunk>>)
  /\ UNCHANGED <<pos, toolCallBuffers, currentToolCall, inputJsonBuffer>>
  /\ AdapterFrame

\* the body is exhausted, or reading it fails
AtEnd == pos > Len(wire)

\* OpenAI, after the for await over parseSSE: the buffered tool call if it has
\* id and name, then done
OpenAIFinish ==
  (IF toolCallBuffers.id # "" /\ toolCallBuffers.name # ""
   THEN <<ToolChunk(toolCallBuffers.id, toolCallBuffers.name,
                    IF toolCallBuffers.arguments = <<>> THEN {}
                    ELSE toolCallBuffers.arguments[1])>>
   ELSE <<>>) \o <<DoneChunk>>

\* OpenAI: JSON.parse of the one fragment, merged into existing.arguments; a
\* fragment that does not parse is dropped
OpenAIArguments(existing, piece) ==
  IF JsonParse(piece) = <<>> THEN existing.arguments
  ELSE <<Merged(IF existing.arguments = <<>> THEN {} ELSE existing.arguments[1],
                Spread(JsonParse(piece)[1]))>>

\* OpenAIProvider.stream: one round of the for await over parseSSE, or what
\* follows the loop; parseSSE returns at [DONE]
OpenAIRead ==
  /\ adapter = "openai"
  /\ adPc = "reading"
  /\ IF AtEnd
     THEN /\ adPc' = "ended"
          /\ Yield(IF wireEnd = "fail" THEN <<ErrorChunk>> ELSE OpenAIFinish)
          /\ UNCHANGED <<pos, toolCallBuffers>>
     ELSE LET e == wire[pos] IN
          /\ pos' = pos + 1
          /\ IF e.type = "terminal"
             THEN adPc' = "ended" /\ Yield(OpenAIFinish) /\ UNCHANGED toolCallBuffers
             ELSE /\ adPc' = "reading"
                  /\ Yield(IF e.type = "text" THEN <<TextChunk("a")>> ELSE <<>>)
                  /\ toolCallBuffers' =
                       IF e.type = "tool_start"
                       THEN [toolCallBuffers EXCEPT !.id = "call_1", !.name = "search"]
                       ELSE IF e.type = "fragment"
                       THEN [toolCallBuffers EXCEPT
                               !.arguments = OpenAIArguments(toolCallBuffers, e.piece)]
                       ELSE toolCallBuffers
  /\ UNCHANGED <<currentToolCall, inputJsonBuffer>>
  /\ AdapterFrame

\* Anthropic, content_block_stop: JSON.parse(inputJsonBuffer), {} if it throws
AnthropicArguments(buffer) ==
  IF JsonParse(buffer) = <<>> THEN {} ELSE Spread(JsonParse(buffer)[1])

\* AnthropicProvider.stream: one round of the for await over parseSSE, or its
\* end; the `break` of message_stop leaves the switch, not the loop
AnthropicRead ==
  /\ adapter = "anthropic"
  /\ adPc = "reading"
  /\ IF AtEnd
     THEN /\ adPc' = "ended"
          /\ Yield(IF wireEnd = "fail" THEN <<ErrorChunk>> ELSE <<>>)
          /\ UNCHANGED <<pos, currentToolCall, inputJsonBuffer>>
     ELSE LET e == wire[pos] IN
          /\ pos' = pos + 1
          /\ adPc' = "reading"
          /\ IF e.type = "text"
             THEN /\ Yield(<<TextChunk("a")>>)
                  /\ UNCHANGED <<currentToolCall, inputJsonBuffer>>
             ELSE IF e.type = "tool_start"
             THEN /\ currentToolCall' = <<[id |-> "call_1", name |-> "search"]>>
                  /\ inputJsonBuffer' = <<>>
                  /\ UNCHANGED chunks
             ELSE IF e.type = "fragment"
             THEN /\ inputJsonBuffer' = IF currentToolCall # <<>>
                                        THEN inputJsonBuffer \o e.piece
                                        ELSE inputJsonBuffer
                  /\ UNCHANGED <<chunks, currentToolCall>>
             ELSE IF e.type = "tool_stop"
             THEN IF currentToolCall # <<>> /\ inputJsonBuffer # <<>>
                  THEN /\ Yield(<<ToolChunk(currentToolCall[1].id,
                                            currentToolCall[1].name,
                                            AnthropicArguments(inputJsonBuffer))>>)
                       /\ currentToolCall' = <<>>
                       /\ inputJsonBuffer' = <<>>
                  ELSE UNCHANGED <<chunks, currentToolCall, inputJsonBuffer>>
             ELSE /\ Yield(<<Chunk("usage", "", NoToolCall), DoneChunk>>)
                  /\ UNCHANGED <<currentToolCall, inputJsonBuffer>>
  /\ UNCHANGED toolCallBuffers
  /\ AdapterFrame

\* the chunks of one event that carries whole parts: parseStreamChunk of
\* Gemini, and the text and tool_calls of an Ollama line
WholeChunks(e) ==
  IF e.type = "text" THEN <<TextChunk("a")>>
  ELSE IF e.type = "call"
  THEN <<ToolChunk("generated", "search", Spread(JsonParse(e.piece)[1]))>>
  ELSE <<>>

\* GeminiProvider.stream: one line of the read loop ([DONE] is skipped), or
\* usage and done after the loop
GeminiRead ==
  /\ adapter = "gemini"
  /\ adPc = "reading"
  /\ IF AtEnd
     THEN /\ adPc' = "ended"
          /\ Yield(IF wireEnd = "fail" THEN <<ErrorChunk>>
                   ELSE <<Chunk("usage", "", NoToolCall), DoneChunk>>)
          /\ UNCHANGED pos
     ELSE /\ pos' = pos + 1
          /\ adPc' = "reading"
          /\ Yield(WholeChunks(wire[pos]))
  /\ UNCHANGED <<toolCallBuffers, currentToolCall, inputJsonBuffer>>
  /\ AdapterFrame

\* OllamaProvider.stream: one round of the for await over parseNDJSON, which
\* returns after usage and done at `done: true`; or the end of the loop
OllamaRead ==
  /\ adapter = "ollama"
  /\ adPc = "reading"
  /\ IF AtEnd
     THEN /\ adPc' = "ended"
          /\ Yield(IF wireEnd = "fail" THEN <<ErrorChunk>> ELSE <<>>)
          /\ UNCHANGED pos
     ELSE /\ pos' = pos + 1
          /\ IF wire[pos].type = "terminal"
             THEN /\ adPc' = "ended"
                  /\ Yield(<<Chunk("usage", "", NoToolCall), DoneChunk>>)
             ELSE /\ adPc' = "reading"
                  /\ Yield(WholeChunks(wire[pos]))
  /\ UNCHANGED <<toolCallBuffers, currentToolCall, inputJsonBuffer>>
  /\ AdapterFrame

\* ------------------------------------------------------------ ConfigBuilder
\* a ProviderConfig as addProvider pushes it; apiKey tells whether a key was
\* given or found in the environment
ProviderConfig(name, apiKey) == [name |-> name, apiKey |-> apiKey]

\* the ProviderName values handed to addProvider and setDefaultProvider
BuilderNames == {Configured, Second, Unconfigured}

\* the names of a providers list
NamesOf(list) == {list[i].name : i \in DOMAIN list}

\* no ConfigBuilder is used: the client was constructed from a given config
NoConfig ==
  /\ builderProviders = <<>>
  /\ builderDefault = "none"
  /\ clientConfig = <<>>
  /\ client = "given"

\* new ConfigBuilder(), and no client yet
BuilderConstructed ==
  /\ builderProviders = <<>>
  /\ builderDefault = "none"
  /\ clientConfig = <<>>
  /\ client = "none"

ConfigFrame ==
  UNCHANGED <<gatewayVars, agentVars, streamVars, toolVars, windowVars,
              tokenVars, retryVars, limitVars, consumerVars, adapterVars,
              errorVars, processorVars, bucketVars>>

\* addProvider(config), reached through addOllama, addOpenAI and addAnthropic
AddProvider(name, apiKey) ==
  /\ client = "none"
  /\ Len(builderProviders) < MaxProviders
  /\ builderProviders' = Append(builderProviders, ProviderConfig(name, apiKey))
  /\ UNCHANGED <<builderDefault, clientConfig, client>>
  /\ ConfigFrame

\* setDefaultProvider(provider)
SetDefaultProvider(name) ==
  /\ client = "none"
  /\ builderDefault' = name
  /\ UNCHANGED <<builderProviders, clientConfig, client>>
  /\ ConfigFrame

LastAdded(list) == list[Len(list)].name

\* build(): this.config.providers[0].name
FirstAdded(list) == list[1].name

\* build() with at least one provider (it throws with none): the default is
\* filled in on the builder itself, and the ClientConfig is returned; omitted
\* records that build() found no defaultProvider
Build ==
  /\ client = "none"
  /\ builderProviders # <<>>
  /\ builderDefault' = IF builderDefault = "none"
                       THEN FirstAdded(builderProviders) ELSE builderDefault
  /\ clientConfig' = <<[providers |-> builderProviders,
                        defaultProvider |-> builderDefault',
                        omitted |-> builderDefault = "none"]>>
  /\ UNCHANGED <<builderProviders, client>>
  /\ ConfigFrame

\* validateConfig(config) returns no error: the default is in the list and
\* every provider but ollama has an apiKey
Valid(config) ==
  /\ config.providers # <<>>
  /\ config.defaultProvider \in NamesOf(config.providers)
  /\ \A i \in DOMAIN config.providers :
       config.providers[i].name # "ollama" => config.providers[i].apiKey

\* new LLMClient(config) with the config build() returned: it throws on a
\* validation error; otherwise initializeProviders registers every provider
\* with its breaker and, as addProvider gave each a rateLimit, its limiter,
\* and the default provider becomes the active one
NewClient ==
  /\ client = "none"
  /\ clientConfig # <<>>
  /\ LET config == clientConfig[1]
         names == NamesOf(config.providers) IN
       IF Valid(config)
       THEN /\ client' = "constructed"
            /\ providers' = names
            /\ providerLimiters' = names
            /\ providerCircuitBreakers' = [p \in names |-> NewBreaker]
            /\ failStreak' = [p \in names |-> 0]
            /\ activeProvider' = config.defaultProvider
       ELSE /\ client' = "threw"
            /\ UNCHANGED <<providers, providerLimiters, providerCircuitBreakers,
                           failStreak, activeProvider>>
  /\ UNCHANGED <<builderProviders, builderDefault, clientConfig>>
  /\ UNCHANGED <<concurrencyLimit, activeRequests, requestQueue, resolved, now,
                 pc, call, target, outcome, slotAcquires, slotReleases, enqLog,
                 admitLog, admittedAs, reply>>
  /\ UNCHANGED <<limiter, request, charged>>
  /\ UNCHANGED <<agentVars, streamVars, toolVars, windowVars, tokenVars,
                 retryVars, consumerVars, adapterVars, errorVars,
                 processorVars, bucketVars>>

\* ------------------------------------------------- errors of adapters' chat()
\* An error message is modelled by the set of the substrings normalizeError
\* looks for that its lower-cased text contains; the messages of the model
\* contain any of these six.
Sniffed == {"rate limit", "api key", "404", "token", "fetch", "timeout"}

\* new LLMError(message, code, provider, retryable, statusCode)
LLMError(code, retryable, statusCode, contains) ==
  [code |-> code, retryable |-> retryable, statusCode |-> statusCode,
   contains |-> contains]

\* new InvalidRequestError(provider, message)
InvalidRequestError(contains) == LLMError("INVALID_REQUEST", FALSE, 400, contains)

\* normalizeError(error, provider) for an Error that is not an LLMError: the
\* first substring test that succeeds decides
Sniff(contains) ==
  IF contains \cap {"rate limit", "429"} # {}
  THEN LLMError("RATE_LIMIT", TRUE, 429, contains)
  ELSE IF contains \cap {"unauthorized", "401", "api key"} # {}
  THEN LLMError("INVALID_API_KEY", FALSE, 401, contains)
  ELSE IF contains \cap {"not found", "404"} # {}
  THEN LLMError("MODEL_NOT_FOUND", FALSE, 404, contains)
  ELSE IF contains \cap {"context", "token"} # {}
  THEN LLMError("CONTEXT_LENGTH_EXCEEDED", FALSE, 400, contains)
  ELSE IF contains \cap {"network", "fetch"} # {}
  THEN LLMError("NETWORK_ERROR", TRUE, 0, contains)
  ELSE IF "timeout" \in contains THEN LLMError("TIMEOUT", TRUE, 408, contains)
  ELSE LLMError("UNKNOWN", FALSE, 0, contains)

\* a failed HTTP response to adapter a: its status, what response.statusText
\* contains, and the vendor's error.message (<<>> when the body has none)
FailedResponse(a, status, statusText, vendor) ==
  [provider |-> a, kind |-> "not_ok", status |-> status,
   statusText |-> statusText, vendor |-> vendor, typeError |-> FALSE]

\* fetch of adapter a rejects with an Error (a TypeError or not) whose message
\* contains the given substrings
Rejected(a, contains, typeError) ==
  [provider |-> a, kind |-> "rejected", status |-> 0, statusText |-> contains,
   vendor |-> <<>>, typeError |-> typeError]

\* 429 Too Many Requests, 401 Unauthorized and 500 Internal Server Error, each
\* with and without the vendor's error message, and the rejections of fetch
Failures ==
  UNION {{FailedResponse(a, 429, {}, <<>>), FailedResponse(a, 429, {}, <<{"rate limit"}>>),
          FailedResponse(a, 401, {"unauthorized"}, <<>>),
          FailedResponse(a, 401, {"unauthorized"}, <<{"api key"}>>),
          FailedResponse(a, 500, {}, <<>>), FailedResponse(a, 500, {}, <<{}>>)}
         \cup {Rejected(a, m, t) : m \in SUBSET Sniffed, t \in BOOLEAN} :
         a \in Adapters}

\* error.error?.message || response.statusText
MessageOf(f) == IF f.vendor # <<>> THEN f.vendor[1] ELSE f.statusText

\* what the try block of chat() throws: `if (!response.ok) throw new
\* InvalidRequestError(...)`, whatever the status
NotOk(f) == InvalidRequestError(MessageOf(f))

\* chat() against failure f: the catch block passes the error of the try block
\* to handleError, and normalizeError returns an LLMError unchanged; Ollama
\* turns a TypeError that mentions fetch into a NetworkError itself
ChatError(f) ==
  IF f.kind = "not_ok" THEN NotOk(f)
  ELSE IF f.provider = "ollama" /\ f.typeError /\ "fetch" \in f.statusText
  THEN LLMError("NETWORK_ERROR", TRUE, 0, f.statusText)
  ELSE Sniff(f.statusText)

\* no adapter's chat() is looked at
NoErrors == failure = <<>> /\ thrown = <<>>

\* chat() of one adapter is about to run against one failure
ChatPending == failure \in {<<f>> : f \in Failures} /\ thrown = <<>>

\* chat() runs and throws
ChatFails ==
  /\ failure # <<>>
  /\ thrown = <<>>
  /\ thrown' = <<ChatError(failure[1])>>
  /\ UNCHANGED failure
  /\ UNCHANGED <<gatewayVars, agentVars, streamVars, toolVars, windowVars,
                 tokenVars, retryVars, limitVars, consumerVars, adapterVars,
                 configVars, processorVars, bucketVars>>

\* ---------------------------------------------------------- StreamProcessor
\* a Partial<ToolCall> as a chunk carries it: "" for a missing id or name, <<>>
\* for missing arguments and <<object>> for an arguments object, which is a
\* set of <<key, value>> pairs
ProcCall(id, name, arguments) == [id |-> id, name |-> name, arguments |-> arguments]

\* the tool_call chunks of the streams: one without id, and pieces of the
\* calls a and b
Partials ==
  {ProcCall("", "search", <<{<<"q", "1">>}>>),
   ProcCall("a", "search", <<>>),
   ProcCall("a", "", <<{<<"q", "1">>}>>),
   ProcCall("a", "", <<{<<"q", "2">>, <<"r", "1">>}>>),
   ProcCall("a", "search", <<{}>>),
   ProcCall("b", "lookup", <<{<<"q", "1">>}>>),
   ProcCall("b", "lookup", <<>>)}

\* a chunk given to processChunk
ProcChunk(type, toolCall) == [type |-> type, toolCall |-> toolCall]

ProcDone == ProcChunk("done", ProcCall("", "", <<>>))

\* up to MaxChunks tool_call chunks
ToolStreams ==
  UNION {[1..n -> {ProcChunk("tool_call", p) : p \in Partials}] : n \in 0..MaxChunks}

\* the streams: tool_call chunks, then the done chunk or an end without it
ProcStreams == {s \o t : s \in ToolStreams, t \in {<<>>, <<ProcDone>>}}

KeysOf(object) == {p[1] : p \in object}

Replaced(old, new) == new

\* { ...existing.arguments, ...partial.arguments }
MergedArguments(old, new) == new \cup {p \in old : p[1] \notin KeysOf(new)}

\* { ...existing, ...partial } and the merge of arguments when both have them
Updated(existing, partial) ==
  [id |-> partial.id,
   name |-> IF partial.name # "" THEN partial.name ELSE existing.name,
   arguments |->
     IF existing.arguments # <<>> /\ partial.arguments # <<>>
     THEN <<MergedArguments(existing.arguments[1], partial.arguments[1])>>
     ELSE IF partial.arguments # <<>> THEN partial.arguments
     ELSE existing.arguments]

\* the position of id in the buffer, 0 when it has no entry
IndexOf(buffer, id) ==
  IF \E i \in DOMAIN buffer : buffer[i].id = id
  THEN CHOOSE i \in DOMAIN buffer : buffer[i].id = id
  ELSE 0

\* processToolCallChunk(partial): toolCallBuffer.set(partial.id, updated); a
\* chunk without id is dropped
Buffered(buffer, partial) ==
  IF partial.id = "" THEN buffer
  ELSE IF IndexOf(buffer, partial.id) = 0
  THEN Append(buffer, Updated(ProcCall("", "", <<>>), partial))
  ELSE [buffer EXCEPT ![IndexOf(buffer, partial.id)] = Updated(@, partial)]

\* getToolCalls() and the calls finalizeToolCalls reports: the entries that
\* have a name and arguments
GetToolCalls(buffer) ==
  SelectSeq(buffer, LAMBDA e : e.name # "" /\ e.arguments # <<>>)

\* no StreamProcessor is used
NoProcessor ==
  /\ spInput = <<>>
  /\ spPos = 1
  /\ toolCallBuffer = <<>>
  /\ reported = <<>>

\* new StreamProcessor(options), about to be fed one stream
ProcessorConstructed ==
  /\ spInput \in ProcStreams
  /\ spPos = 1
  /\ toolCallBuffer = <<>>
  /\ reported = <<>>

\* processChunk(chunk) for the next chunk of the stream
ProcessChunk ==
  /\ spPos <= Len(spInput)
  /\ LET chunk == spInput[spPos] IN
       /\ toolCallBuffer' = IF chunk.type = "tool_call"
                            THEN Buffered(toolCallBuffer, chunk.toolCall)
                            ELSE toolCallBuffer
       /\ reported' = IF chunk.type = "done"
                      THEN reported \o GetToolCalls(toolCallBuffer)
                      ELSE reported
  /\ spPos' = spPos + 1
  /\ UNCHANGED spInput
  /\ UNCHANGED <<gatewayVars, agentVars, streamVars, toolVars, windowVars,
                 tokenVars, retryVars, limitVars, consumerVars, adapterVars,
                 configVars, errorVars, bucketVars>>

\* ------------------------------------------------- token-bucket RateLimiter
\* The minute is WindowMs clock ticks and tokens is a fraction: rlTokens holds
\* it multiplied by WindowMs, so that one token is WindowMs units and
\* (elapsed / 60000) * requestsPerMinute is elapsed * rlRate units.

\* the 10 ms that processQueue adds to its waiting time, as clock ticks
PollSlack == 1

\* refillTokens() at time t: Math.min(requestsPerMinute, tokens + tokensToAdd)
Refilled(t) ==
  IF rlTokens + (t - rlLastRefill) * rlRate > rlRate * WindowMs
  THEN rlRate * WindowMs
  ELSE rlTokens + (t - rlLastRefill) * rlRate

\* processQueue: (60000 / requestsPerMinute) + 10
PollWait == (WindowMs \div rlRate) + PollSlack

RECURSIVE Drained(_, _)
\* the while loop of processQueue at one instant, from tokens t and queue q:
\* `if (this.tokens > 0) { this.tokens--; this.queue.shift()?.resolve() }`
\* until the queue is empty or no token is left
Drained(t, q) ==
  IF q = <<>> \/ t <= 0 THEN [tokens |-> t, queue |-> q]
  ELSE Drained(t - WindowMs, Tail(q))

\* no RateLimiter is used
NoBucket ==
  /\ rlRate = 0
  /\ rlTokens = 0
  /\ rlLastRefill = 0
  /\ rlQueue = <<>>
  /\ rlProcessing = FALSE
  /\ rlWake = 0
  /\ rlPc = [c \in Acquirers |-> "unused"]
  /\ rlArrived = <<>>
  /\ rlAdmitted = <<>>

\* new RateLimiter({ requestsPerMinute }) with requestsPerMinute in rates
BucketConstructed(rates) ==
  /\ rlRate \in rates
  /\ rlTokens = rlRate * WindowMs
  /\ rlLastRefill = now
  /\ rlQueue = <<>>
  /\ rlProcessing = FALSE
  /\ rlWake = 0
  /\ rlPc = [c \in Acquirers |-> "idle"]
  /\ rlArrived = <<>>
  /\ rlAdmitted = <<>>

BucketFrame ==
  /\ UNCHANGED rlRate
  /\ UNCHANGED <<gatewayVars, agentVars, streamVars, toolVars, windowVars,
                 tokenVars, retryVars, limitVars, consumerVars, adapterVars,
                 configVars, errorVars, processorVars>>

\* acquire() by caller c: refill, then either a token is taken at once or the
\* caller is queued and processQueue() is started, which (unless it is running
\* already) finds no token and sets its timer
BucketAcquire(c) ==
  /\ rlPc[c] = "idle"
  /\ rlArrived' = Append(rlArrived, c)
  /\ rlLastRefill' = now
  /\ IF Refilled(now) > 0
     THEN /\ rlTokens' = Refilled(now) - WindowMs
          /\ rlPc' = [rlPc EXCEPT ![c] = "admitted"]
          /\ rlAdmitted' = Append(rlAdmitted, c)
          /\ UNCHANGED <<rlQueue, rlProcessing, rlWake>>
     ELSE /\ rlTokens' = Refilled(now)
          /\ rlPc' = [rlPc EXCEPT ![c] = "queued"]
          /\ rlQueue' = Append(rlQueue, c)
          /\ rlProcessing' = TRUE
          /\ rlWake' = IF rlProcessing THEN rlWake ELSE now + PollWait
          /\ UNCHANGED rlAdmitted
  /\ BucketFrame

\* the timer of processQueue fires: the loop refills and resolves queued
\* callers from the front while tokens are left, then ends or sleeps again
BucketPoll ==
  /\ rlProcessing
  /\ now >= rlWake
  /\ LET after == Drained(Refilled(now), rlQueue)
         served == SubSeq(rlQueue, 1, Len(rlQueue) - Len(after.queue)) IN
       /\ rlTokens' = after.tokens
       /\ rlQueue' = after.queue
       /\ rlAdmitted' = rlAdmitted \o served
       /\ rlPc' = [c \in Acquirers |->
                     IF \E i \in DOMAIN served : served[i] = c
                     THEN "admitted" ELSE rlPc[c]]
       /\ rlProcessing' = (after.queue # <<>>)
       /\ rlWake' = IF after.queue # <<>> THEN now + PollWait ELSE rlWake
  /\ rlLastRefill' = now
  /\ UNCHANGED rlArrived
  /\ BucketFrame

\* the utilities outside the gateway are unused
NoSdk == NoConfig /\ NoErrors /\ NoProcessor /\ NoBucket

\* nothing outside chat, chatWith and the agent loops is used
NoExtras == NoLimiter /\ NoConsumers /\ NoAdapter /\ NoSdk

\* no utility outside the client is used
Unused == NoExecuteTools /\ NoWindow /\ NoTokens /\ NoRetry /\ NoExtras

\* ---------------------------------------------------------- specifications
\* A client with one provider and a concurrencyLimit of 1, 2 or the default,
\* called by NumCallers concurrent tasks through chat and chatWith.
Init == Constructed({Configured}, Configured, 0..MaxConcurrency, {<<>>}) /\ Unused

Next ==
  \/ \E c \in Callers : CallChat(c)
  \/ \E c \in Callers, p \in ProviderNames : CallChatWith(c, p)
  \/ ResumeWaiter
  \/ \E c \in Callers : Proceed(c)
  \/ \E c \in Callers, ok \in BOOLEAN : AdapterSettle(c, ok, PlainReply)
  \/ \E c \in Callers : Finally(c)
  \/ Tick

Spec == Init /\ [][Next]_vars

\* the steps that are not a new call by a task and not the clock
Progress ==
  \/ ResumeWaiter
  \/ \E c \in Callers : Proceed(c)
  \/ \E c \in Callers, ok \in BOOLEAN : AdapterSettle(c, ok, PlainReply)
  \/ \E c \in Callers : Finally(c)

\* The event loop runs a queued continuation whenever there is one, and every
\* adapter call returns or throws.
Fairness == WF_vars(Progress)

\* The same client called through chat alone.
FairNext ==
  \/ \E c \in Callers : CallChat(c)
  \/ ResumeWaiter
  \/ \E c \in Callers : Proceed(c)
  \/ \E c \in Callers, ok \in BOOLEAN : AdapterSettle(c, ok, PlainReply)
  \/ \E c \in Callers : Finally(c)
  \/ Tick

FairSpec == Init /\ [][FairNext]_vars /\ Fairness

\* A client with the default concurrencyLimit whose NumBreakerCallers tasks
\* all call chat on the one provider: the breaker under concurrent calls.
BreakerInit == Constructed({Configured}, Configured, {0}, {<<>>}) /\ Unused

BreakerNext ==
  \/ \E c \in BreakerCallers : CallChat(c)
  \/ \E c \in BreakerCallers : Proceed(c)
  \/ \E c \in BreakerCallers, ok \in BOOLEAN : AdapterSettle(c, ok, PlainReply)
  \/ \E c \in BreakerCallers : Finally(c)
  \/ Tick

SpecBreaker == BreakerInit /\ [][BreakerNext]_vars

\* A client with one provider whose only caller is one runAgentLoop call, with
\* options.maxIterations omitted or 0..MaxIter.
AgentInit ==
  /\ Constructed({Configured}, Configured, {0}, {<<>>} \cup {<<n>> : n \in 0..MaxIter})
  /\ Unused

AgentNext ==
  \/ AgentStart
  \/ Proceed(Agent)
  \/ \E ok \in BOOLEAN, r \in AgentReplies(chatCalls) : AdapterSettle(Agent, ok, r)
  \/ Finally(Agent)
  \/ AgentChatDone
  \/ AgentToolStep
  \/ AgentToolSettle

SpecAgent == AgentInit /\ [][AgentNext]_vars

\* the steps of a started runAgentLoop call
AgentProgress ==
  \/ Proceed(Agent)
  \/ \E ok \in BOOLEAN, r \in AgentReplies(chatCalls) : AdapterSettle(Agent, ok, r)
  \/ Finally(Agent)
  \/ AgentChatDone
  \/ AgentToolStep
  \/ AgentToolSettle

\* chat and the tool executors terminate, and the event loop runs the
\* continuation of the loop whenever there is one.
AgentFairness == WF_vars(AgentProgress)

FairSpecAgent == AgentInit /\ [][AgentNext]_vars /\ AgentFairness

\* The same client with one call of either loop: runAgentLoop or
\* runAgentLoopStreaming.
LoopsNext ==
  \/ AgentStart
  \/ AgentStreamingStart
  \/ Proceed(Agent)
  \/ \E ok \in BOOLEAN, r \in AgentReplies(chatCalls) : AdapterSettle(Agent, ok, r)
  \/ Finally(Agent)
  \/ AgentChatDone
  \/ \E plan \in AgentStreams : StreamProceed(Agent, plan)
  \/ AgentStreamChunk
  \/ AgentStreamDone
  \/ AgentToolStep
  \/ AgentToolSettle

SpecLoops == AgentInit /\ [][LoopsNext]_vars

\* One executeTools call on a client that is otherwise idle.
ToolsInit ==
  /\ Constructed({Configured}, Configured, {0}, {<<>>})
  /\ ExecuteToolsPending /\ NoWindow /\ NoTokens /\ NoRetry
  /\ NoExtras

ToolsNext == ExecuteToolsStart \/ ExecuteToolsStep \/ ExecuteToolsSettle

SpecTools == ToolsInit /\ [][ToolsNext]_vars

\* One SlidingWindowRateLimiter whose acquire() is called by one task, one
\* call after the other.
WindowInit ==
  /\ Constructed({Configured}, Configured, {0}, {<<>>})
  /\ NoExecuteTools /\ WindowConstructed(1..MaxRequests) /\ NoTokens /\ NoRetry
  /\ NoExtras

WindowOneNext ==
  \/ WindowAcquire(1)
  \/ WindowWake(1)
  \/ GetRemainingRequests
  \/ Elapse

SpecWindowOne == WindowInit /\ [][WindowOneNext]_vars

\* The same limiter with NumAcquirers tasks calling acquire() concurrently.
WindowNext ==
  \/ \E c \in Acquirers : WindowAcquire(c)
  \/ \E c \in Acquirers : WindowWake(c)
  \/ GetRemainingRequests
  \/ Elapse

SpecWindow == WindowInit /\ [][WindowNext]_vars

\* One TokenRateLimiter with NumAcquirers tasks calling acquire(tokenCount)
\* concurrently, every tokenCount between 1 and maxTokensPerMinute.
TokensInit ==
  /\ Constructed({Configured}, Configured, {0}, {<<>>})
  /\ NoExecuteTools /\ NoWindow /\ TokensConstructed(1..MaxTokens) /\ NoRetry
  /\ NoExtras

TokensNext ==
  \/ \E c \in Acquirers, n \in 1..maxTokensPerMinute : TokenAcquire(c, n)
  \/ \E c \in Acquirers : TokenWake(c)
  \/ Elapse

SpecTokens == TokensInit /\ [][TokensNext]_vars

\* One withRetry call.
RetryInit ==
  /\ Constructed({Configured}, Configured, {0}, {<<>>})
  /\ NoExecuteTools /\ NoWindow /\ NoTokens /\ RetryPending
  /\ NoExtras

RetryNext ==
  \/ RetryStart
  \/ FnResolves
  \/ \E e \in ErrorsThrown : FnRejects(e)
  \/ \E jitter \in Jitters(MaxDelayMs) \cup Jitters(InitialDelayMs * BackoffMultiplier) :
       RetryWake(jitter)

SpecRetry == RetryInit /\ [][RetryNext]_vars

\* stream(request) of each adapter against every vendor stream of Wires.
AdaptersInit ==
  /\ Constructed({Configured}, Configured, {0}, {<<>>})
  /\ NoExecuteTools /\ NoWindow /\ NoTokens /\ NoRetry
  /\ NoLimiter /\ NoConsumers /\ AdapterPending /\ NoSdk

AdaptersNext ==
  \/ AdapterSetup
  \/ OpenAIRead
  \/ AnthropicRead
  \/ GeminiRead
  \/ OllamaRead

SpecAdapters == AdaptersInit /\ [][AdaptersNext]_vars

\* A client with one provider whose tasks call chat (Chatters) or iterate
\* stream and streamWith and call streamWithCallbacks with a signal that may
\* abort (Streamers).
StreamsInit ==
  /\ Constructed({Configured}, Configured, 1..MaxConcurrency, {<<>>})
  /\ Unused

StreamsNext ==
  \/ \E c \in Chatters : CallChat(c)
  \/ \E c \in Streamers : Stream(c, NoRequest)
  \/ \E c \in Streamers, p \in ProviderNames : StreamWith(c, p, NoRequest)
  \/ \E c \in Streamers : StreamWithCallbacks(c, NoRequest)
  \/ ResumeWaiter
  \/ \E c \in Chatters : Proceed(c)
  \/ \E c \in Chatters, ok \in BOOLEAN : AdapterSettle(c, ok, PlainReply)
  \/ \E c \in Chatters : Finally(c)
  \/ \E c \in Streamers, plan \in ClientStreams : StreamProceed(c, plan)
  \/ \E c \in Streamers : IterNext(c)
  \/ \E c \in Streamers : IterReturn(c)
  \/ \E c \in Streamers : CallbackNext(c)
  \/ \E c \in Streamers : Abort(c)
  \/ Tick

SpecStreams == StreamsInit /\ [][StreamsNext]_vars

\* the clock advances by as much as a limiter can make a call wait
LimitedElapse == now <= StartTime + WindowMs /\ Elapse

\* the tasks of the clients with two providers
TwoCallers == {1, 2}

\* A client with the providers Configured and Second, Configured active at
\* first and alone in having a rateLimit, whose first task calls chat and
\* whose second iterates stream while setProvider is called.
SwitchInit ==
  /\ Constructed({Configured, Second}, Configured, {0}, {<<>>})
  /\ NoExecuteTools /\ WindowConstructed({MaxRequests})
  /\ TokensConstructed({0}) /\ NoRetry
  /\ Limited({Configured}) /\ NoConsumers /\ NoAdapter /\ NoSdk

SwitchNext ==
  \/ ChatRequest(1, Req(0, 1))
  \/ Stream(2, Req(0, 1))
  \/ \E name \in {Configured, Second} : SetProvider(name)
  \/ \E c \in TwoCallers : LimiterAcquire(c)
  \/ \E c \in TwoCallers : LimiterTokens(c)
  \/ Proceed(1)
  \/ \E ok \in BOOLEAN : AdapterSettle(1, ok, PlainReply)
  \/ Finally(1)
  \/ StreamProceed(2, <<DoneChunk>>)
  \/ IterNext(2)
  \/ LimitedElapse

SpecSwitch == SwitchInit /\ [][SwitchNext]_vars

\* A client with concurrencyLimit 1 and the providers Configured, which has a
\* rateLimit with tokensPerMinute MaxTokens, and Second, which has none; tasks
\* call chatWith for either provider with maxTokens MaxTokens.
SharedInit ==
  /\ Constructed({Configured, Second}, Configured, {1}, {<<>>})
  /\ NoExecuteTools /\ WindowConstructed({MaxRequests})
  /\ TokensConstructed({MaxTokens}) /\ NoRetry
  /\ Limited({Configured}) /\ NoConsumers /\ NoAdapter /\ NoSdk

SharedNext ==
  \/ \E c \in LimitedCallers, p \in {Configured, Second} :
       ChatWithRequest(c, p, Req(MaxTokens, 1))
  \/ ResumeWaiter
  \/ \E c \in LimitedCallers : LimiterAcquire(c)
  \/ \E c \in LimitedCallers : LimiterTokens(c)
  \/ \E c \in LimitedCallers : LimiterTokenWake(c)
  \/ \E c \in LimitedCallers : Proceed(c)
  \/ \E c \in LimitedCallers : AdapterSettle(c, TRUE, PlainReply)
  \/ \E c \in LimitedCallers : Finally(c)
  \/ LimitedElapse

SpecShared == SharedInit /\ [][SharedNext]_vars

\* A client with the providers Configured and Second, none with a rateLimit,
\* called through chat and chatWith by enough tasks to open one breaker and
\* one more.
IsolatedInit ==
  /\ Constructed({Configured, Second}, Configured, {0}, {<<>>}) /\ Unused

IsolatedNext ==
  \/ \E c \in LimitedCallers : CallChat(c)
  \/ \E c \in LimitedCallers, p \in {Configured, Second} : CallChatWith(c, p)
  \/ \E c \in LimitedCallers : Proceed(c)
  \/ \E c \in LimitedCallers, ok \in BOOLEAN : AdapterSettle(c, ok, PlainReply)
  \/ \E c \in LimitedCallers : Finally(c)
  \/ Tick

SpecIsolated == IsolatedInit /\ [][IsolatedNext]_vars

\* no utility of the earlier sections is used
GatewayOnly ==
  /\ NoExecuteTools /\ NoWindow /\ NoTokens /\ NoRetry
  /\ NoLimiter /\ NoConsumers /\ NoAdapter

\* A ConfigBuilder to which up to MaxProviders providers are added, with or
\* without a key, and whose default provider may be set; build() and then new
\* LLMClient(config), and setProvider on the client.
ConfigInit ==
  /\ Constructed({}, "none", {0}, {<<>>})
  /\ GatewayOnly
  /\ BuilderConstructed /\ NoErrors /\ NoProcessor /\ NoBucket

ConfigNext ==
  \/ \E name \in BuilderNames, apiKey \in BOOLEAN : AddProvider(name, apiKey)
  \/ \E name \in BuilderNames : SetDefaultProvider(name)
  \/ Build
  \/ NewClient
  \/ \E name \in BuilderNames : SetProvider(name)

SpecConfig == ConfigInit /\ [][ConfigNext]_vars

\* chat() of each adapter against each failure of the transport.
ErrorsInit ==
  /\ Constructed({Configured}, Configured, {0}, {<<>>})
  /\ GatewayOnly
  /\ NoConfig /\ ChatPending /\ NoProcessor /\ NoBucket

ErrorsNext == ChatFails

SpecErrors == ErrorsInit /\ [][ErrorsNext]_vars

\* A StreamProcessor fed each stream of ProcStreams chunk by chunk.
ProcessorInit ==
  /\ Constructed({Configured}, Configured, {0}, {<<>>})
  /\ GatewayOnly
  /\ NoConfig /\ NoErrors /\ ProcessorConstructed /\ NoBucket

ProcessorNext == ProcessChunk

SpecProcessor == ProcessorInit /\ [][ProcessorNext]_vars

\* A RateLimiter with requestsPerMinute 1..MaxRequests on which each task
\* calls acquire() once, at any time.
BucketInit ==
  /\ Constructed({Configured}, Configured, {0}, {<<>>})
  /\ GatewayOnly
  /\ NoConfig /\ NoErrors /\ NoProcessor /\ BucketConstructed(1..MaxRequests)

BucketNext ==
  \/ \E c \in Acquirers : BucketAcquire(c)
  \/ BucketPoll
  \/ Elapse

SpecBucket == BucketInit /\ [][BucketNext]_vars

\* A client with concurrencyLimit MaxConcurrency whose one provider has a
\* rateLimit (requestsPerMinute MaxRequests, tokensPerMinute omitted or
\* MaxTokens), called with maxTokens MaxTokens through chat by enough tasks to
\* open the breaker and through chatWith by one more.
LimitedInit ==
  /\ Constructed({Configured}, Configured, {MaxConcurrency}, {<<>>})
  /\ NoExecuteTools /\ WindowConstructed({MaxRequests})
  /\ TokensConstructed({0, MaxTokens}) /\ NoRetry
  /\ Limited({Configured}) /\ NoConsumers /\ NoAdapter /\ NoSdk

LimitedNext ==
  \/ \E c \in Chatters : ChatRequest(c, Req(MaxTokens, 1))
  \/ \E c \in LimitedCallers \ Chatters :
       ChatWithRequest(c, Configured, Req(MaxTokens, 1))
  \/ ResumeWaiter
  \/ \E c \in LimitedCallers : LimiterAcquire(c)
  \/ \E c \in LimitedCallers : LimiterWake(c)
  \/ \E c \in LimitedCallers : LimiterTokens(c)
  \/ \E c \in LimitedCallers : LimiterTokenWake(c)
  \/ \E c \in LimitedCallers : Proceed(c)
  \/ \E c \in LimitedCallers, ok \in BOOLEAN : AdapterSettle(c, ok, PlainReply)
  \/ \E c \in LimitedCallers : Finally(c)
  \/ LimitedElapse

SpecLimited == LimitedInit /\ [][LimitedNext]_vars

\* The same client with the default concurrencyLimit and requestsPerMinute
\* MaxRequests, called by two tasks, the first through chat and stream
\* and the others through chatWith and streamWith, with requests of every
\* maxTokens (or none) and size.
ChargedInit ==
  /\ Constructed({Configured}, Configured, {0}, {<<>>})
  /\ NoExecuteTools /\ WindowConstructed({MaxRequests})
  /\ TokensConstructed({0, MaxTokens}) /\ NoRetry
  /\ Limited({Configured}) /\ NoConsumers /\ NoAdapter /\ NoSdk

ChargedNext ==
  \/ \E req \in Requests : ChatRequest(1, req)
  \/ \E req \in Requests : Stream(1, req)
  \/ \E c \in ChargedCallers \ {1}, req \in Requests :
       ChatWithRequest(c, Configured, req)
  \/ \E c \in ChargedCallers \ {1}, req \in Requests :
       StreamWith(c, Configured, req)
  \/ \E c \in ChargedCallers : LimiterAcquire(c)
  \/ \E c \in ChargedCallers : LimiterTokens(c)
  \/ \E c \in ChargedCallers : LimiterTokenWake(c)
  \/ \E c \in ChargedCallers : Proceed(c)
  \/ \E c \in ChargedCallers : AdapterSettle(c, TRUE, PlainReply)
  \/ \E c \in ChargedCallers : Finally(c)
  \/ \E c \in ChargedCallers : StreamProceed(c, <<DoneChunk>>)
  \/ \E c \in ChargedCallers : IterNext(c)
  \/ LimitedElapse

SpecCharged == ChargedInit /\ [][ChargedNext]_vars

\* ------------------------------------------------------------------ claims
InFlight(c) == pc[c] \in {"acquired", "adapter", "settled"}

Quiescent == \A c \in Procs : pc[c] \in {"idle", "done"}

Range(q) == {q[i] : i \in 1..Len(q)}

\* C1: the callers that returned from acquireSlot and have not yet run
\* releaseSlot, and the counter activeRequests, never exceed concurrencyLimit.
C1_SlotBound ==
  /\ activeRequests <= concurrencyLimit
  /\ Cardinality({c \in Procs : InFlight(c)}) <= concurrencyLimit

\* C2: a call that acquired a slot releases it exactly once on every exit path
\* (never before acquiring it, never twice), and whenever no call is in
\* progress activeRequests is 0 and nobody waits.
C2_ReleasedExactlyOnce ==
  /\ \A c \in Procs :
       /\ slotReleases[c] <= slotAcquires[c]
       /\ slotAcquires[c] <= 1
       /\ InFlight(c) => slotAcquires[c] = 1 /\ slotReleases[c] = 0
       /\ pc[c] = "done" => slotAcquires[c] = 1 /\ slotReleases[c] = 1
  /\ Quiescent => activeRequests = 0 /\ requestQueue = <<>> /\ resolved = <<>>

\* every caller is done, one of them after waiting in requestQueue, and among
\* the exits are an adapter error and a rejection by the open breaker
C2_Witness ==
  /\ \A c \in Callers : pc[c] = "done"
  /\ \E c \in Callers : outcome[c] = "breaker_open"
  /\ \E c \in Callers : outcome[c] = "error"
  /\ admitLog # <<>>

\* C3: releaseSlot wakes the waiter that is longest in requestQueue, and the
\* queued waiters get their slots in the order they were enqueued: the waiters
\* already admitted, then the woken ones, then the ones still queued, are the
\* enqueue order.
C3_Fifo == admitLog \o resolved \o requestQueue = enqLog

\* two waiters were queued together and both got their slot
C3_Witness == Len(admitLog) >= 2 /\ Len(enqLog) >= 2

\* C4: when every adapter call returns or throws, every chat call, also one
\* suspended in acquireSlot, is eventually admitted and settles; no waiter
\* stays in requestQueue forever.
C4_EveryCallSettles ==
  \A c \in Callers : (pc[c] \in {"queued", "acquired", "adapter", "settled"})
                        ~> (pc[c] = "done")

\* a caller that had to wait in requestQueue has settled
C4_Witness == \E c \in Callers : pc[c] = "done" /\ c \in Range(admitLog)

TheBreaker == providerCircuitBreakers[Configured]

C5_Step ==
  LET cb == providerCircuitBreakers[Configured]
      cbNext == providerCircuitBreakers'[Configured]
      streak == failStreak'[Configured]
  IN /\ cb.state = "closed" =>
          (cbNext.state = "open" <=> streak = FailureThreshold)
     /\ cb.state = "closed" /\ streak < FailureThreshold => cbNext.state = "closed"
     /\ \A c \in Procs :
          /\ pc[c] = "adapter" /\ pc'[c] = "settled" /\ outcome'[c] = "ok"
               => cbNext.failures = 0
          /\ pc[c] = "acquired" /\ pc'[c] # "acquired" /\ cb.state = "closed"
               => pc'[c] = "adapter"

\* C5: a closed breaker opens exactly when the failures since the last success
\* reach failureThreshold; below the threshold it stays closed and passes
\* calls through, and a success resets the failure counter to 0.
C5_OpensAtThreshold ==
  /\ [](TheBreaker.state = "closed" =>
          failStreak[Configured] < FailureThreshold
          /\ TheBreaker.failures = failStreak[Configured])
  /\ [][C5_Step]_vars

\* the breaker has just opened on the failure that reached the threshold
C5_Witness ==
  /\ TheBreaker.state = "open"
  /\ failStreak[Configured] = FailureThreshold
  /\ \E c \in Procs : pc[c] = "settled" /\ outcome[c] = "error"

C6_Step ==
  \A c \in Procs :
    (/\ pc[c] = "acquired"
     /\ pc'[c] # "acquired"
     /\ Addressed(c) \in providers
     /\ providerCircuitBreakers[Addressed(c)].state = "open"
     /\ now - providerCircuitBreakers[Addressed(c)].lastFailure < ResetTimeoutMs)
    => /\ pc'[c] = "settled"
       /\ outcome'[c] = "breaker_open"
       /\ target'[c] = "none"
       /\ providerCircuitBreakers' = providerCircuitBreakers

\* C6: while the breaker is open and resetTimeoutMs has not elapsed since the
\* last failure, execute rejects with the breaker-open error without invoking
\* the wrapped function, and leaves failures, lastFailure and state as they are.
C6_OpenRejects == [][C6_Step]_vars

\* a call was just rejected by the open breaker inside the reset timeout
C6_Witness ==
  \E c \in Procs :
    /\ pc[c] = "settled"
    /\ outcome[c] = "breaker_open"
    /\ TheBreaker.state = "open"
    /\ now - TheBreaker.lastFailure < ResetTimeoutMs

\* C7: half-open admits one trial call: while the call that was let through
\* after the reset timeout is in flight, no other call runs its function.
C7_OneTrial ==
  Cardinality({c \in Procs : pc[c] = "adapter"
                              /\ admittedAs[c] \in {"trial", "half-open"}}) <= 1

C8_Step ==
  \A c \in Procs :
    (pc[c] = "adapter" /\ admittedAs[c] = "trial" /\ pc'[c] = "settled")
    => IF outcome'[c] = "ok"
       THEN /\ providerCircuitBreakers'[target[c]].state = "closed"
            /\ providerCircuitBreakers'[target[c]].failures = 0
       ELSE /\ providerCircuitBreakers'[target[c]].state = "open"
            /\ providerCircuitBreakers'[target[c]].lastFailure = now

\* C8: the outcome of the half-open trial call decides the next state: closed
\* with the failure counter at 0 when it succeeds, open again with the reset
\* timeout restarted at that failure when it fails.
C8_TrialDecides == [][C8_Step]_vars

\* C9: when the first chat response carries no tool calls (absent or empty),
\* runAgentLoop has made exactly one chat call, has run no tool, has pushed no
\* message and returns that response unchanged.
C9_NoToolsOneChat ==
  (/\ firstResponse # <<>>
   /\ (~firstResponse[1].hasToolCalls \/ firstResponse[1].toolCalls = <<>>))
  => /\ agentPc = "returned"
     /\ chatCalls = 1
     /\ toolExecs = 0
     /\ messages = RequestMessages
     /\ result = firstResponse
     /\ result = reply[Agent]

\* the loop returned a first response whose toolCalls is the empty list
C9_Witness ==
  /\ agentPc = "returned"
  /\ firstResponse # <<>>
  /\ firstResponse[1].hasToolCalls
  /\ firstResponse[1].toolCalls = <<>>
  /\ maxIterations > 1

AgentFinished == agentPc \in {"returned", "threw"}

C11_CapNeverThrows ==
  (loop = "runAgentLoop" /\ agentPc = "threw")
  => /\ chatCalls >= 1
     /\ outcome[Agent] \in {"error", "breaker_open", "not_configured"}

IsPrefix(p, q) == Len(p) <= Len(q) /\ SubSeq(q, 1, Len(p)) = p

\* the model calls made so far
ModelCalls == Len(sentLog)

\* the tool calls the model emitted in the turn, each with id, name and arguments
EmittedCalls ==
  LET full == SelectSeq(emitted, LAMBDA tc : tc.id # "" /\ tc.name # "" /\ tc.arguments # "")
  IN [i \in 1..Len(full) |-> [id |-> full[i].id, name |-> full[i].name]]

C12_Step ==
  (Len(sentLog') = Len(sentLog) + 1 /\ Len(sentLog) >= 1)
  => LET prev == sentLog[Len(sentLog)]
         sent == sentLog'[Len(sentLog')]
         n == Len(prev)
     IN /\ executing = <<>> /\ executing' = <<>>
        /\ Len(sent) = n + 1 + Len(EmittedCalls)
        /\ SubSeq(sent, 1, n) = prev
        /\ sent[n + 1].role = "assistant"
        /\ sent[n + 1].toolCalls = EmittedCalls
        /\ \A i \in 1..Len(EmittedCalls) :
             /\ sent[n + 1 + i].role = "tool"
             /\ sent[n + 1 + i].toolCallId = EmittedCalls[i].id
             /\ sent[n + 1 + i].name = EmittedCalls[i].name

Succeeds(c) == \E i \in 1..Len(Tools) : Tools[i].name = c.name /\ Tools[i].execute = "returns"

\* the tool call c has an executor that throws
Throws(c) == \E i \in 1..Len(Tools) : Tools[i].name = c.name /\ Tools[i].execute = "throws"

\* the tool calls of the response given to executeTools
EtCalls == IF etResponse.hasToolCalls THEN etResponse.toolCalls ELSE <<>>

C15_Step ==
  /\ agentPc \in {"tools", "executing"} => agentPc' # "threw"
  /\ (agentPc \in {"tools", "executing"} /\ Len(messages') = Len(messages) + 1)
       => LET m == messages'[Len(messages')]
              c == TurnCalls[toolIdx]
          IN /\ m.role = "tool"
             /\ m.toolCallId = c.id
             /\ ~Succeeds(c) => m.content[1] \in {"Error: ", "Error: Tool '"}
             /\ toolIdx' = toolIdx + 1
  /\ (agentPc = "chat" /\ agentPc' # "chat" /\ outcome[Agent] # "ok")
       => agentPc' = "threw"
  /\ agentPc = "threw"
       => UNCHANGED <<chatCalls, toolExecs, sentLog, messages, executing>>

C16_AppendOnly ==
  /\ [](sentLog # <<>> =>
          /\ sentLog[1] = RequestMessages
          /\ \A k \in 2..Len(sentLog) : IsPrefix(sentLog[k - 1], sentLog[k]))
  /\ [][agentPc # "idle" => IsPrefix(messages, messages')]_vars

\* three model calls were made, each with a longer list than the one before
C16_Witness ==
  /\ ModelCalls >= 3
  /\ Len(sentLog[3]) > Len(sentLog[2])
  /\ Len(sentLog[2]) > Len(sentLog[1])

C17_Step ==
  /\ Len(swAdmitted') > Len(swAdmitted) => InWindow(swAdmitted, now) < maxRequests
  /\ \A c \in Acquirers :
       (swPc[c] = "sleeping" /\ swPc'[c] = "idle") => now - swOldest[c] >= WindowMs

\* C17: with one caller at a time, getRemainingRequests() returns 0 when
\* maxRequests acquires lie within the window, and a further acquire()
\* completes only when the oldest recorded timestamp has left the window.
C17_FullWindowWaits ==
  /\ []((swRemaining # <<>> /\ swRemaining[1].inWindow >= maxRequests)
          => swRemaining[1].value = 0)
  /\ [][C17_Step]_vars

\* an acquire() that found the window full has slept and completed, and
\* getRemainingRequests() then returned 0
C17_Witness ==
  /\ swPc[1] = "idle"
  /\ swOldest[1] # 0
  /\ Len(swAdmitted) > maxRequests
  /\ swRemaining # <<>>
  /\ swRemaining[1].value = 0
  /\ swRemaining[1].inWindow = maxRequests

\* C18: for any number of concurrent acquire() callers, the admitted requests
\* whose timestamps lie within the last windowMs are at most maxRequests.
C18_WindowBound == InWindow(swAdmitted, now) <= maxRequests

\* the cost admitted within the last minute
RECURSIVE CostInWindow(_, _)
CostInWindow(admitted, t) ==
  IF admitted = <<>> THEN 0
  ELSE (IF Head(admitted).time > t - WindowMs THEN Head(admitted).count ELSE 0)
         + CostInWindow(Tail(admitted), t)

\* C19: for sequential or concurrent acquire(tokens) calls of cost at most
\* maxTokensPerMinute each, the cost admitted within any minute never exceeds
\* maxTokensPerMinute.
C19_TokenBound == CostInWindow(tkAdmitted, now) <= maxTokensPerMinute

\* the last entry of a non-empty sequence
Last(q) == q[Len(q)]

C20_Step ==
  /\ (rtPc = "fn" /\ rtPc' # "fn" /\ Last(fnLog') # Resolved)
       => /\ ~isRetryableError(Last(fnLog'))
            => rtPc' = "threw" /\ rtOutcome' = <<"throw", Last(fnLog')>>
          /\ fnCalls = retryConfig.maxRetries + 1
            => rtPc' = "threw" /\ rtOutcome' = <<"throw", Last(fnLog')>>
  /\ (rtPc = "fn" /\ rtPc' # "fn" /\ Last(fnLog') = Resolved)
       => rtPc' = "returned" /\ rtOutcome' = <<"return", Resolved>>
  /\ rtPc \in {"returned", "threw"} => fnCalls' = fnCalls

\* C20: withRetry invokes fn at most maxRetries + 1 times; an error that is
\* not retryable is re-thrown at once, the last error is re-thrown when
\* maxRetries is exhausted, and the first success is returned without a
\* further invocation.
C20_BoundedAttempts ==
  /\ [](fnCalls <= Max(0, retryConfig.maxRetries + 1))
  /\ [](rtPc \in {"returned", "threw"} =>
          /\ fnCalls = Len(fnLog)
          /\ \A i \in 1..(Len(fnLog) - 1) : fnLog[i] # Resolved)
  /\ [][C20_Step]_vars

\* the attempt after the last retry succeeded
C20_Witness ==
  /\ rtPc = "returned"
  /\ retryConfig.maxRetries = MaxRetries
  /\ fnCalls = MaxRetries + 1
  /\ Len(sleeps) = MaxRetries

\* C21: every delay withRetry sleeps between two attempts is at most
\* maxDelayMs, for every configuration and every jitter within 10 percent.
C21_DelayBounded ==
  \A k \in 1..Len(sleeps) : sleeps[k] <= retryConfig.maxDelayMs

\* the messages one model turn adds to the list: none for a turn without tool
\* calls, else the assistant message and one tool message per call
TurnMessages(t) ==
  IF t.toolCalls = <<>> THEN <<>>
  ELSE <<AssistantMessage(t.content, t.toolCalls)>> \o
       [i \in 1..Len(t.toolCalls) |->
          Msg("tool", ToolResultOf(t.toolCalls[i]), <<>>, t.toolCalls[i].id,
              t.toolCalls[i].name)]

RECURSIVE MessagesAfter(_)
\* the message list after the turns ts
MessagesAfter(ts) ==
  IF ts = <<>> THEN RequestMessages
  ELSE MessagesAfter(SubSeq(ts, 1, Len(ts) - 1)) \o TurnMessages(ts[Len(ts)])

RECURSIVE ToolsAfter(_)
\* the executors invoked for the turns ts, in order
ToolsAfter(ts) ==
  IF ts = <<>> THEN <<>>
  ELSE ToolsAfter(SubSeq(ts, 1, Len(ts) - 1)) \o
       SelectSeq(ts[Len(ts)].toolCalls, LAMBDA tc : HasExecutor(tc))

\* C28: runAgentLoopStreaming and runAgentLoop are the same state machine: the
\* number of model calls, the executors invoked and their order, and the
\* message list (also the one sent with each model call) are one function of
\* the model turns delivered and of maxIterations, whichever loop runs.
C28_SameStateMachine ==
  /\ agentPc \notin {"idle", "tools", "executing"}
       => /\ messages = MessagesAfter(turns)
          /\ toolLog = ToolsAfter(turns)
  /\ \A k \in 1..Len(sentLog) :
       k <= Len(turns) + 1 /\ sentLog[k] = MessagesAfter(SubSeq(turns, 1, k - 1))
  /\ (agentPc = "returned" \/ (agentPc = "threw" /\ maxIterations = 0))
       => /\ Len(sentLog) = Len(turns)
          /\ Len(turns) <= maxIterations
          /\ \A k \in 1..Len(turns) :
               (turns[k].toolCalls = <<>>) => k = Len(turns)
          /\ Len(turns) < maxIterations => turns[Len(turns)].toolCalls = <<>>

\* the streaming loop ran to the cap over turns with several tool calls
C28_Witness ==
  /\ loop = "runAgentLoopStreaming"
  /\ agentPc = "returned"
  /\ Len(turns) = MaxIter
  /\ Len(turns[1].toolCalls) = 3
  /\ Len(turns[2].toolCalls) = 1
  /\ Len(toolLog) = 2

EventsOf(type, it) ==
  SelectSeq(events, LAMBDA e : e.type = type /\ e.iteration = it)

ToolNames(es) == [i \in 1..Len(es) |-> es[i].toolName]

\* C29: runAgentLoopStreaming yields exactly one done event, as its last
\* event; every tool_call event of a turn is matched by one tool_result event
\* for the same tool, after the turn's stream has ended and in the order of
\* the tool_call events; no event of a later turn comes before them.
C29_EventOrder ==
  /\ \A i \in 1..Len(events) : events[i].type = "done" => i = Len(events)
  /\ (loop = "runAgentLoopStreaming" /\ agentPc = "returned")
       => Len(events) > 0 /\ events[Len(events)].type = "done"
  /\ \A i, j \in 1..Len(events) :
       i < j => /\ events[i].iteration <= events[j].iteration
                /\ (events[i].type = "tool_result"
                    /\ events[i].iteration = events[j].iteration)
                     => events[j].type \in {"tool_result", "done"}
  /\ \A k \in 0..maxIterations :
       LET called == ToolNames(EventsOf("tool_call", k))
           answered == ToolNames(EventsOf("tool_result", k))
       IN /\ IsPrefix(answered, called)
          /\ (iterations > k \/ agentPc = "returned") => answered = called
          /\ (agentPc = "stream" /\ iterations = k) => answered = <<>>

\* two turns with tool calls, text after a tool call, and done at the cap
C29_Witness ==
  /\ loop = "runAgentLoopStreaming"
  /\ agentPc = "returned"
  /\ iterations = MaxIter
  /\ Len(EventsOf("tool_result", 0)) = 3
  /\ Len(EventsOf("text", 0)) = 1
  /\ Len(EventsOf("tool_result", 1)) = 1
  /\ events[Len(events)].type = "done"

Terminal(chunk) == chunk.type \in {"done", "error"}

\* C22: the chunks an adapter's stream() has produced when it ends contain
\* exactly one terminal chunk (done or error), and it is the last chunk.
C22_OneTerminalChunk ==
  adPc = "ended"
    => /\ Cardinality({i \in 1..Len(chunks) : Terminal(chunks[i])}) = 1
       /\ Terminal(chunks[Len(chunks)])

RECURSIVE Concatenated(_)
\* the concatenation of all argument fragments of a vendor stream
Concatenated(es) ==
  IF es = <<>> THEN <<>>
  ELSE (IF Head(es).type = "fragment" THEN Head(es).piece ELSE <<>>)
         \o Concatenated(Tail(es))

ToolCallChunks == SelectSeq(chunks, LAMBDA ch : ch.type = "tool_call")

\* the vendor streamed one whole tool call in fragments and the stream ended
\* in good order
StreamedWhole ==
  /\ adapter \in Fragmenting
  /\ adPc = "ended"
  /\ wireEnd = "end"
  /\ JsonParse(Concatenated(wire)) # <<>>
  /\ adapter = "anthropic" => \E i \in 1..Len(wire) : wire[i] = VStop

\* C24: for a tool call whose argument JSON the vendor streams in fragments
\* cut anywhere, stream() yields exactly one tool_call chunk, and its arguments
\* are the object parsed from the concatenation of all the fragments.
C24_ReconstructedArguments ==
  StreamedWhole
    => /\ Len(ToolCallChunks) = 1
       /\ ToolCallChunks[1].toolCall.arguments
            = Spread(JsonParse(Concatenated(wire))[1])

\* C23: stream() never throws: for the gateway's stream and streamWith a
\* failure during setup (an unknown provider name passed to streamWith among
\* them) or in the middle of the stream reaches the consumer as one terminal
\* error chunk and the iterator then ends normally.  Stated on the gateway:
\* no consumed stream ends with the "not configured" exception of getProvider.
C23_NeverThrows ==
  \A c \in Procs :
    consumer[c] # "none" /\ pc[c] = "done" => outcome[c] # "not_configured"

\* the calls of the streaming entry points
StreamKinds == {"stream", "streamWith"}

\* a step of the stream call of task c
StreamStep(c) ==
  /\ call[c].kind \in StreamKinds
  /\ \/ pc'[c] # pc[c]
     \/ streamRest'[c] # streamRest[c]
     \/ received'[c] # received[c]

C27_Step ==
  /\ \A c \in Procs :
       StreamStep(c) =>
         /\ providerCircuitBreakers' = providerCircuitBreakers
         /\ failStreak' = failStreak
         /\ outcome'[c] # "breaker_open"
         /\ pc[c] = "acquired" /\ Addressed(c) \in providers
              => pc'[c] = "streaming"
  /\ providerCircuitBreakers' # providerCircuitBreakers =>
       \E c \in Procs : call[c].kind \in {"chat", "chatWith"} /\ pc'[c] # pc[c]

\* C27: stream and streamWith are not wrapped by the circuit breaker: a stream
\* is started even when the provider's breaker is open, no step of a stream
\* (a chunk, an error chunk, an exception, an early return, the end) changes
\* the breaker's state, failure counter or last-failure time, and a breaker
\* changes only in a step of a chat or chatWith call.
C27_StreamsBypassBreaker == [][C27_Step]_vars

\* a stream is being consumed, having acquired the only slot after every chat
\* call was done, while the provider's breaker is open and rejects chat calls
C27_Witness ==
  /\ concurrencyLimit = 1
  /\ \A c \in Chatters : pc[c] = "done"
  /\ Rejects(providerCircuitBreakers[Configured], now)
  /\ \E c \in Streamers :
       /\ call[c].kind \in StreamKinds
       /\ pc[c] = "streaming"
       /\ received[c] # <<>>

C30_Step ==
  \A c \in Procs :
    consumer[c] = "callbacks" /\ aborted[c] =>
      /\ processed'[c] = processed[c]
      /\ textBuffer'[c] = textBuffer[c]
      /\ received'[c] # received[c] =>
           /\ pc'[c] = "done"
           /\ slotReleases'[c] = slotReleases[c] + 1
           /\ slotReleases'[c] = slotAcquires'[c]
           /\ cbResult'[c] = <<"resolved", textBuffer[c]>>

\* C30: streamWithCallbacks checks the abort signal once per received chunk:
\* once the signal is aborted no chunk is passed to the StreamProcessor (the
\* processed chunks and the accumulated text stay as they are), and the step
\* that receives a chunk with the signal aborted closes the stream, releases
\* its concurrency slot and resolves with the content accumulated before.
C30_AbortStopsProcessing == [][C30_Step]_vars

\* a call aborted after its first chunk: the second chunk was received and not
\* processed, the slot is released and the call resolved with the first text
C30_Witness ==
  \E c \in Streamers :
    /\ consumer[c] = "callbacks"
    /\ aborted[c]
    /\ Len(received[c]) = 2
    /\ Len(processed[c]) = 1
    /\ cbResult[c] = <<"resolved", <<"a">>>>
    /\ slotReleases[c] = 1
    /\ pc[c] = "done"

\* the stages of a chat or chatWith call between acquireSlot and the finally
\* block
SlotStages ==
  {"acquired", "requestSleep", "requestAdmitted", "tokenSleep", "limited",
   "adapter", "settled"}

\* limiter.acquire(request.maxTokens) of call c has resolved
AcquireCompleted(c) ==
  /\ pc[c] = "limited"
  /\ swPc[c] = "idle" /\ tkPc[c] = "idle"
  /\ swAdmitted # <<>>
  /\ \E i \in DOMAIN charged : charged[i].caller = c
  /\ ChargesTokens(request[c]) =>
       \E i \in DOMAIN tkAdmitted :
         tkAdmitted[i].count = EstimatedTokens(request[c])

C25_Step ==
  \A c \in Procs :
    call[c].kind \in {"chat", "chatWith"} =>
      /\ pc[c] # "adapter" /\ pc'[c] = "adapter" =>
           /\ slotAcquires[c] = 1 /\ slotReleases[c] = 0
           /\ activeRequests >= 1
           /\ Addressed(c) \in providerLimiters => AcquireCompleted(c)
           /\ ~Rejects(providerCircuitBreakers[Addressed(c)], now)
      /\ pc[c] \in SlotStages =>
           slotAcquires[c] = 1 /\ slotReleases[c] = 0
      /\ Addressed(c) \in providers /\ slotReleases'[c] # slotReleases[c] =>
           pc[c] = "settled"
      /\ outcome[c] = "breaker_open" =>
           pc[c] \in {"settled", "done"} /\ pc'[c] # "adapter"

\* C25: in chat and chatWith a call enters the adapter only holding its
\* concurrency slot, with acquire on the provider's rate limiter (when the
\* provider has one) resolved, and with the provider's breaker letting it
\* through, in this order; a call rejected by an open breaker never enters the
\* adapter; the slot is held from the limiter's wait until the adapter has
\* settled and is released only after that.
C25_PipelineOrder == [][C25_Step]_vars

\* a call that waited in the provider's request limiter while holding its slot
\* is inside the adapter
C25_Witness ==
  \E c \in LimitedCallers :
    /\ pc[c] = "adapter"
    /\ swWake[c] > 0
    /\ slotAcquires[c] = 1 /\ slotReleases[c] = 0

\* C26: when chat, chatWith, stream or streamWith acquires the provider's
\* rate limiter, the cost charged to the token limiter is an estimate derived
\* from the serialized size of the request: every request with content is
\* charged a positive cost, and two requests of different size are charged
\* different costs.
C26_CostFromSize ==
  maxTokensPerMinute # 0 =>
    \A i, j \in DOMAIN charged :
      /\ charged[i].size > 0 => charged[i].cost > 0
      /\ charged[i].size # charged[j].size => charged[i].cost # charged[j].cost

\* the edges of the CircuitBreaker state machine
BreakerEdges ==
  {<<"closed", "open">>, <<"open", "half-open">>, <<"half-open", "closed">>,
   <<"half-open", "open">>}

C33_Step ==
  \A p \in providers :
    providerCircuitBreakers'[p].state # providerCircuitBreakers[p].state =>
      <<providerCircuitBreakers[p].state, providerCircuitBreakers'[p].state>>
        \in BreakerEdges

\* C33: under any interleaving of concurrent execute calls on one
\* CircuitBreaker its state changes only along closed to open, open to
\* half-open, half-open to closed and half-open to open; it never goes from
\* open directly to closed, also when a call admitted while the breaker was
\* closed completes after the breaker has opened.
C33_OnlyEdges == [][C33_Step]_vars

\* the content_block_stop events of tool_use blocks that stream() has read
StopsRead ==
  SelectSeq(SubSeq(wire, 1, pos - 1), LAMBDA e : e.type = "tool_stop")

\* C34: in AnthropicProvider.stream every tool_use content block produces
\* exactly one tool_call chunk, emitted at the block's content_block_stop and
\* carrying the block's id and name, also for a block that received no
\* input_json_delta fragment.
C34_OneChunkPerToolBlock ==
  adapter = "anthropic" /\ adPc \in {"reading", "ended"} =>
    /\ Len(ToolCallChunks) = Len(StopsRead)
    /\ \A i \in 1..Len(ToolCallChunks) :
         /\ ToolCallChunks[i].toolCall.id = "call_1"
         /\ ToolCallChunks[i].toolCall.name = "search"

\* the calls that hold a concurrency slot
SlotHolders == {c \in Procs : slotAcquires[c] = 1 /\ slotReleases[c] = 0}

\* C36: stream and streamWith acquire exactly one concurrency slot before the
\* first chunk is produced and release it exactly once, when the adapter's
\* stream finishes, when it raises and when the consumer ends the iteration
\* early; while it is open the stream counts as one in-flight request, and
\* once it is over it no longer counts.
C36_StreamSlot ==
  /\ activeRequests = Cardinality(SlotHolders)
  /\ \A c \in Procs :
       consumer[c] # "none" =>
         /\ pc[c] = "queued" => slotAcquires[c] = 0 /\ received[c] = <<>>
         /\ pc[c] = "streaming" => c \in SlotHolders
         /\ received[c] # <<>> => slotAcquires[c] = 1
         /\ pc[c] = "done" => slotAcquires[c] = 1 /\ slotReleases[c] = 1

\* a stream that waited for its slot behind chat calls was left early by its
\* consumer after one chunk, and no call is in flight any more
C36_Witness ==
  \E c \in Streamers :
    /\ consumer[c] = "iterator"
    /\ cbResult[c] = <<"returned">>
    /\ c \in {enqLog[i] : i \in DOMAIN enqLog}
    /\ slotAcquires[c] = 1 /\ slotReleases[c] = 1
    /\ activeRequests = 0

\* C37: for every chat or stream call on the active provider, the rate
\* limiter that is charged, the circuit breaker that is consulted and the
\* adapter that is invoked belong to the same provider, also when setProvider
\* is called while the call is suspended in acquireSlot or in the limiter.
C37_SameProvider ==
  \A c \in Procs :
    target[c] # "none" /\ limiter[c] # "none" => limiter[c] = target[c]

\* C38: the global concurrency bound is independent of per-provider rate
\* limits: a chatWith request to provider Second, which has no exhausted
\* rate limit, does not wait for Configured's rate-limit window, so it is never
\* queued for a slot while every slot is held by a call sleeping in
\* Configured's limiter.
C38_NoCrossProviderWait ==
  \A c \in Procs :
    /\ call[c].kind = "chatWith"
    /\ call[c].provider = Second
    /\ pc[c] = "queued"
    => ~ /\ SlotHolders # {}
         /\ \A d \in SlotHolders :
              /\ pc[d] \in {"requestSleep", "tokenSleep"}
              /\ limiter[d] = Configured

\* the provider a chat or chatWith call is for
AskedOf(c) == IF call[c].kind = "chat" THEN activeProvider ELSE call[c].provider

\* the calls that take a step
Stepping == {c \in Procs : pc'[c] # pc[c]}

C39_Step ==
  /\ \A p \in providers :
       \/ /\ providerCircuitBreakers'[p] = providerCircuitBreakers[p]
          /\ failStreak'[p] = failStreak[p]
       \/ \E c \in Stepping : AskedOf(c) = p
  /\ \A c \in Stepping :
       outcome[c] # "breaker_open" /\ outcome'[c] = "breaker_open" =>
         Rejects(providerCircuitBreakers[AskedOf(c)], now)
  /\ \A c \in Stepping :
       /\ pc[c] = "acquired"
       /\ AskedOf(c) \in providers
       /\ ~Rejects(providerCircuitBreakers[AskedOf(c)], now)
       => pc'[c] = "adapter" /\ target'[c] = AskedOf(c)

\* C39: circuit-breaker state is per provider: a failure or success of
\* provider P's adapter in chat or chatWith changes only P's breaker, so the
\* failures of one provider never open, close or advance the failure counter
\* of another provider's breaker, and an open breaker of P never rejects a
\* call addressed to another provider.
C39_BreakersIsolated == [][C39_Step]_vars

\* a call for Second is inside the adapter, admitted while the breaker of
\* Configured is open and rejects, and the breaker of Second is untouched
C39_Witness ==
  /\ Rejects(providerCircuitBreakers[Configured], now)
  /\ providerCircuitBreakers[Second] = NewBreaker
  /\ \E c \in LimitedCallers : pc[c] = "adapter" /\ target[c] = Second
  /\ \E c \in LimitedCallers : outcome[c] = "error" /\ pc[c] = "done"

C31_Step ==
  /\ clientConfig' # clientConfig /\ builderDefault = "none" =>
       clientConfig'[1].defaultProvider = builderProviders[1].name
  /\ client = "none" /\ client' = "constructed" =>
       /\ providers' = NamesOf(clientConfig[1].providers)
       /\ activeProvider' = clientConfig[1].defaultProvider
       /\ clientConfig[1].omitted =>
            activeProvider' = clientConfig[1].providers[1].name
  /\ client' = "constructed" => activeProvider' \in providers'

\* C31: build() with defaultProvider omitted makes the first provider added
\* the default, and a client constructed from that config registers the
\* config's providers and has that first provider active; after construction
\* the active provider is always one of the registered providers.
C31_FirstProviderIsDefault == [][C31_Step]_vars

\* a client constructed from a config of two different providers built with
\* defaultProvider omitted, the first of them active
C31_Witness ==
  /\ client = "constructed"
  /\ clientConfig[1].omitted
  /\ Len(clientConfig[1].providers) = 2
  /\ clientConfig[1].providers[1].name # clientConfig[1].providers[2].name
  /\ activeProvider = clientConfig[1].providers[1].name
  /\ providers = {clientConfig[1].providers[1].name,
                  clientConfig[1].providers[2].name}

\* C32: an adapter's chat() that receives a failed (non-OK) HTTP response
\* throws a typed error whose kind comes from classifying the response: a
\* rate-limit response (429) yields RATE_LIMIT with retryable true, an
\* authentication failure (401) yields INVALID_API_KEY, and an unclassifiable
\* failure (500 without a telling message) yields UNKNOWN, not retryable.
C32_ClassifiedResponse ==
  thrown # <<>> /\ failure[1].kind = "not_ok" =>
    /\ failure[1].status = 429 =>
         thrown[1].code = "RATE_LIMIT" /\ thrown[1].retryable
    /\ failure[1].status = 401 => thrown[1].code = "INVALID_API_KEY"
    /\ failure[1].status = 500 =>
         thrown[1].code = "UNKNOWN" /\ ~thrown[1].retryable

\* the positions of the processed tool_call chunks that carry id
ChunksOf(id) ==
  {i \in 1..(spPos - 1) :
     spInput[i].type = "tool_call" /\ spInput[i].toolCall.id = id}

\* the positions among them whose arguments have key
ChunksWith(id, key) ==
  {i \in ChunksOf(id) :
     /\ spInput[i].toolCall.arguments # <<>>
     /\ key \in KeysOf(spInput[i].toolCall.arguments[1])}

LastOf(positions) == CHOOSE i \in positions : \A j \in positions : j <= i

BothPresent(e) == e.name # "" /\ e.arguments # <<>>

\* how often a call is found in a sequence of calls
Times(calls, e) == Cardinality({i \in DOMAIN calls : calls[i] = e})

\* C35: StreamProcessor keeps one buffered tool call per id; the arguments
\* of an id are the key by key merge of the arguments of its chunks, a later
\* chunk's value overriding an earlier one's; getToolCalls() returns exactly
\* the buffered calls that have a name and arguments, one per id; and once a
\* stream that ends with done is processed, onToolCall was invoked exactly
\* once for each such call.
C35_MergedPerId ==
  /\ \A i, j \in DOMAIN toolCallBuffer :
       toolCallBuffer[i].id = toolCallBuffer[j].id => i = j
  /\ {toolCallBuffer[i].id : i \in DOMAIN toolCallBuffer} =
       {spInput[i].toolCall.id : i \in 1..(spPos - 1)} \ {""}
  /\ \A n \in DOMAIN toolCallBuffer :
       LET e == toolCallBuffer[n]
           given == {i \in ChunksOf(e.id) : spInput[i].toolCall.arguments # <<>>}
       IN  /\ (e.arguments # <<>>) = (given # {})
           /\ e.arguments # <<>> =>
                /\ KeysOf(e.arguments[1]) =
                     UNION {KeysOf(spInput[i].toolCall.arguments[1]) : i \in given}
                /\ \A p \in e.arguments[1] :
                     /\ p \in spInput[LastOf(ChunksWith(e.id, p[1]))].toolCall.arguments[1]
                     /\ \A q \in e.arguments[1] : q[1] = p[1] => q = p
  /\ LET calls == GetToolCalls(toolCallBuffer) IN
       /\ \A e \in {toolCallBuffer[i] : i \in DOMAIN toolCallBuffer} :
            Times(calls, e) = IF BothPresent(e) THEN 1 ELSE 0
       /\ \A i \in DOMAIN calls : Times(toolCallBuffer, calls[i]) = 1
  /\ spPos > Len(spInput) /\ Len(spInput) > 0 /\ spInput[Len(spInput)].type = "done" =>
       /\ \A e \in {toolCallBuffer[i] : i \in DOMAIN toolCallBuffer} :
            Times(reported, e) = IF BothPresent(e) THEN 1 ELSE 0
       /\ \A i \in DOMAIN reported : Times(toolCallBuffer, reported[i]) = 1

\* a processed stream that ended with done, in which a later chunk of call a
\* overrode the value of q and added r, and the merged call was reported once
C35_Witness ==
  /\ Len(spInput) > 0
  /\ spPos > Len(spInput)
  /\ spInput[Len(spInput)].type = "done"
  /\ \E i, j \in ChunksOf("a") :
       /\ i < j
       /\ spInput[i].toolCall.arguments = <<{<<"q", "1">>}>>
       /\ spInput[j].toolCall.arguments = <<{<<"q", "2">>, <<"r", "1">>}>>
  /\ reported = <<ProcCall("a", "search", <<{<<"q", "2">>, <<"r", "1">>}>>)>>
  /\ Len(toolCallBuffer) = 1

\* C40: the token-bucket RateLimiter admits callers in arrival order: the
\* callers admitted so far are the first callers that arrived, in their
\* order of arrival, so that no acquire() made while earlier callers are
\* queued is admitted before them.
C40_ArrivalOrder == rlAdmitted = SubSeq(rlArrived, 1, Len(rlAdmitted))

====
